---- MODULE Spec2Model ----
(***************************************************************************)
(* Model of portfolio_ingest: the reconciliation engine of db.py           *)
(* (sync_holdings, sync_bulk_deals, sync_block_deals over the investors,   *)
(* stocks, holdings, bulk_deals and block_deals tables), the collection    *)
(* loop of runner.py (gather_data, run_ingestion) and the scheduler job of *)
(* app.py.                                                                 *)
(*                                                                         *)
(* Text, dates and numbers are kept as strings; a column that holds SQL    *)
(* NULL (Python None) holds "None".  Row ids are the values of the         *)
(* table's serial sequence; the sequence advances on every INSERT attempt  *)
(* (also one that ends in ON CONFLICT) and is not rolled back.             *)
(***************************************************************************)
EXTENDS Integers, Sequences, FiniteSets, TLC

VARIABLES
    investors,    \* rows of table investors
    stocks,       \* rows of table stocks
    holdings,     \* rows of table holdings
    bulk_deals,   \* rows of table bulk_deals
    block_deals,  \* rows of table block_deals
    seq,          \* the serial sequence of each table (last value handed out)
    clock,        \* logical time: the number of reconciliation calls begun
    fails,        \* how many reconciliation calls have raised
    last,         \* the reconciliation call that ended last
    settings,     \* Settings.investor_sources: the items of the mapping, in order
    pc,           \* where each process is in run_ingestion
    job,          \* what each process's run gathered, and how the run ended
    runs,         \* how many times run_ingestion was entered
    skipped,      \* how many triggers the scheduler has dropped
    ingest_schedule,  \* rows of table ingest_schedule
    scheduler,    \* the AsyncIOScheduler of app.py: whether it runs, and its jobs
    web,          \* the schedule operation that ended last
    tx,           \* the database sessions in flight, one per concurrent caller
    call          \* the adapter function under examination: its argument and what it gave

tables == <<investors, stocks, holdings, bulk_deals, block_deals>>
runvars == <<settings, pc, job, runs, skipped>>
schedvars == <<ingest_schedule, scheduler, web>>
vars == <<investors, stocks, holdings, bulk_deals, block_deals, seq, clock, fails, last,
          settings, pc, job, runs, skipped, ingest_schedule, scheduler, web, tx, call>>

\* ------------------------------------------------------------------ bounds
MaxBatch == 2     \* records in one batch handed to a reconciliation call
MaxOps == 2       \* reconciliation calls in one behaviour
MaxFails == 1     \* reconciliation calls that raise in one behaviour
MaxRows == 2      \* data rows of one table of a page
MaxRuns == 1      \* ingestion runs in one behaviour of SpecRun
MaxTriggers == 2  \* entries into run_ingestion in one behaviour of SpecTrigger
MaxSkipped == 1   \* triggers the scheduler drops in one behaviour
MaxScheduleOps == 3  \* schedule operations in one behaviour of SpecSchedule
MaxText == 4      \* characters of a text handed to parse_float or parse_int
MaxPieces == 3    \* pieces a location handed to create_source is put together from
MaxInvestors == 3  \* investors of a configuration in SpecConfigured

\* ------------------------------------------------------------ input values
None == "None"
InvestorNames == {"A", "B"}
TickerNames == {"X", "Y"}
SourceUrls == {"https://www.screener.in/a", "https://trendlyne.com/a"}
HoldingValues ==
    { [percent_holding |-> "12.34", shares |-> "1234", reported_date |-> "2024-01-05"],
      [percent_holding |-> "5.0", shares |-> None, reported_date |-> None] }
DealDates == {"2024-01-05", "2024-02-01"}
DealValues ==
    { [quantity |-> "100", price |-> "10.5"],
      [quantity |-> None, price |-> None] }
DealTypes == {"bulk", "block"}
Sides == {"buy", "sell"}

\* models.Holding
Holding(investor, ticker, source_url, v) ==
    [investor |-> investor, ticker |-> ticker, source_url |-> source_url,
     percent_holding |-> v.percent_holding, shares |-> v.shares,
     reported_date |-> v.reported_date]

\* models.Deal
Deal(investor, ticker, source_url, deal_date, v, deal_type, side) ==
    [investor |-> investor, ticker |-> ticker, source_url |-> source_url,
     deal_date |-> deal_date, quantity |-> v.quantity, price |-> v.price,
     deal_type |-> deal_type, side |-> side]

\* The Holding records a caller may hand to sync_holdings: two values and two
\* source locations for the pair (A, X), and the other three pairs.
HoldingRecords ==
    { Holding("A", "X", u, v) :
        u \in {"https://www.screener.in/a"}, v \in HoldingValues }
    \cup { Holding("A", "X", "https://trendlyne.com/a", v) :
        v \in {[percent_holding |-> "12.34", shares |-> "1234", reported_date |-> "2024-01-05"]} }
    \cup { Holding(k[1], k[2], "https://www.screener.in/a", v) :
        k \in { <<"A", "Y">>, <<"B", "X">>, <<"B", "Y">> },
        v \in {[percent_holding |-> "5.0", shares |-> None, reported_date |-> None]} }

\* The Deal records a caller may hand to sync_bulk_deals / sync_block_deals:
\* buy deals of both kinds for four keys (two values for the first), and a
\* sell deal of each kind.
DealKeys ==
    { <<"A", "X", "2024-01-05">>, <<"B", "X", "2024-01-05">>,
      <<"A", "Y", "2024-01-05">>, <<"A", "X", "2024-02-01">> }
DealRecords ==
    { Deal(k[1], k[2], "https://www.screener.in/a", k[3],
           [quantity |-> "100", price |-> "10.5"], ty, "buy") :
        k \in DealKeys, ty \in DealTypes }
    \cup { Deal("A", "X", "https://www.screener.in/a", "2024-01-05",
                [quantity |-> None, price |-> None], ty, sd) :
        ty \in DealTypes, sd \in Sides }

SeqsUpTo(S, n) == UNION { [1..k -> S] : k \in 0..n }
HoldingBatches == SeqsUpTo(HoldingRecords, MaxBatch)
DealBatches == SeqsUpTo(DealRecords, MaxBatch)

\* ---------------------------------------------------------- the connection
\* A connection inside `with session(engine) as conn`: the tables as the
\* transaction sees them, the sequences, the statements executed so far, and
\* the statement (1-based) that raises, 0 for none.
Connect(t, sq, now, failAt) ==
    [t |-> t, sq |-> sq, now |-> now, failAt |-> failAt,
     count |-> 0, failed |-> FALSE, ret |-> 0, removed |-> 0]

\* conn.execute(stmt): the statement counts, and raises when it is the failing one.
Execute(cx) ==
    IF cx.failed THEN cx
    ELSE IF cx.count + 1 = cx.failAt
         THEN [cx EXCEPT !.count = @ + 1, !.failed = TRUE]
         ELSE [cx EXCEPT !.count = @ + 1]

\* An upsert that would leave the source location of a known investor alone.
_upsert_investor_KeepUrl(cx, name, source_url) ==
    LET c == Execute(cx) IN
    IF c.failed THEN c
    ELSE
        LET id == c.sq.investors + 1
            hit == { r \in c.t.investors : r.name = name }
        IN  IF hit = {}
            THEN [c EXCEPT !.sq.investors = id,
                           !.t.investors = @ \cup
                               { [id |-> id, name |-> name, source_url |-> source_url,
                                  created_at |-> c.now, updated_at |-> c.now] },
                           !.ret = id]
            ELSE [c EXCEPT !.sq.investors = id, !.ret = (CHOOSE r \in hit : TRUE).id]

\* INSERT INTO investors ... ON CONFLICT (name) DO UPDATE SET source_url, updated_at
\* RETURNING id
_upsert_investor(cx, name, source_url) ==
    LET c == Execute(cx) IN
    IF c.failed THEN c
    ELSE
        LET id == c.sq.investors + 1
            hit == { r \in c.t.investors : r.name = name }
        IN  IF hit = {}
            THEN [c EXCEPT !.sq.investors = id,
                           !.t.investors = @ \cup
                               { [id |-> id, name |-> name, source_url |-> source_url,
                                  created_at |-> c.now, updated_at |-> c.now] },
                           !.ret = id]
            ELSE LET old == CHOOSE r \in hit : TRUE IN
                 [c EXCEPT !.sq.investors = id,
                           !.t.investors = (@ \ {old}) \cup
                               { [old EXCEPT !.source_url = source_url,
                                             !.updated_at = c.now] },
                           !.ret = old.id]

\* INSERT INTO stocks ... ON CONFLICT DO NOTHING RETURNING id: the id of the
\* new row, or no row (0) when the ticker is stored.
InsertStock(cx, ticker) ==
    LET c == Execute(cx) IN
    IF c.failed THEN c
    ELSE
        LET id == c.sq.stocks + 1
            hit == { r \in c.t.stocks : r.ticker = ticker }
        IN  IF hit = {}
            THEN [c EXCEPT !.sq.stocks = id,
                           !.t.stocks = @ \cup { [id |-> id, ticker |-> ticker] },
                           !.ret = id]
            ELSE [c EXCEPT !.sq.stocks = id, !.ret = 0]

\* SELECT id FROM stocks WHERE ticker = ...
SelectStock(cx, ticker) ==
    LET c == Execute(cx) IN
    IF c.failed THEN c
    ELSE [c EXCEPT !.ret = (CHOOSE r \in c.t.stocks : r.ticker = ticker).id]

\* db.py 156-163: the INSERT, then the SELECT when the insert returned no row
\* (c is the connection as the INSERT left it).
_upsert_stock(cx, ticker) ==
    CHOOSE out \in { IF c.failed \/ c.ret # 0 THEN c ELSE SelectStock(c, ticker) :
                         c \in {InsertStock(cx, ticker)} } : TRUE

\* A dict that would keep the first record of a key.
DictSet_FirstWins(grouped, key, rec) ==
    IF \E i \in 1..Len(grouped) : grouped[i].key = key
    THEN grouped
    ELSE Append(grouped, [key |-> key, rec |-> rec])

\* grouped[key] = record: a Python dict, kept as the sequence of its items in
\* insertion order; assigning to a key already present keeps its position.
DictSet(grouped, key, rec) ==
    IF \E i \in 1..Len(grouped) : grouped[i].key = key
    THEN [i \in 1..Len(grouped) |->
            IF grouped[i].key = key THEN [key |-> key, rec |-> rec] ELSE grouped[i]]
    ELSE Append(grouped, [key |-> key, rec |-> rec])

DictKeys(grouped) == { grouped[i].key : i \in 1..Len(grouped) }

\* A scope that would commit whatever the connection did before the error.
session_NoRollback(pre, cx) ==
    LET c == Execute(cx) IN
    [t |-> c.t, sq |-> c.sq, ok |-> ~c.failed, count |-> c.count, removed |-> c.removed]

\* The commit or rollback of engine.begin(): the work of the connection is
\* kept when its block ended normally and the COMMIT succeeds, and is dropped
\* when a statement or the COMMIT raised.
session(pre, cx) ==
    LET c == Execute(cx) IN
    IF c.failed THEN [t |-> pre, sq |-> c.sq, ok |-> FALSE, count |-> c.count, removed |-> 0]
    ELSE [t |-> c.t, sq |-> c.sq, ok |-> TRUE, count |-> c.count, removed |-> c.removed]

\* ------------------------------------------------------------ sync_holdings
\* db.py 171-175: resolve the investor and the stock of every record and group
\* the records by (investor_id, stock_id), from record i on.
RECURSIVE HoldingsResolve(_, _, _, _)
HoldingsResolve(cx, grouped, holdings_data, i) ==
    IF i > Len(holdings_data) \/ cx.failed THEN [cx |-> cx, grouped |-> grouped]
    ELSE
        LET holding == holdings_data[i]
            c1 == _upsert_investor(cx, holding.investor, holding.source_url)
            c2 == _upsert_stock(c1, holding.ticker)
        IN  IF c2.failed THEN [cx |-> c2, grouped |-> grouped]
            ELSE HoldingsResolve(c2, DictSet(grouped, <<c1.ret, c2.ret>>, holding),
                                 holdings_data, i + 1)

\* An upsert that would replace the conflicting row by a new one.
HoldingsUpsertRow_Reinsert(cx, key, holding) ==
    LET c == Execute(cx) IN
    IF c.failed THEN c
    ELSE
        LET id == c.sq.holdings + 1
            hit == { r \in c.t.holdings : r.investor_id = key[1] /\ r.stock_id = key[2] }
        IN  [c EXCEPT !.sq.holdings = id,
                      !.t.holdings = (@ \ hit) \cup
                          { [id |-> id, investor_id |-> key[1], stock_id |-> key[2],
                             percent_holding |-> holding.percent_holding,
                             shares |-> holding.shares,
                             reported_date |-> holding.reported_date,
                             created_at |-> c.now, updated_at |-> c.now] }]

\* An insert that would not look for a row with the same key.
HoldingsUpsertRow_PlainInsert(cx, key, holding) ==
    LET c == Execute(cx) IN
    IF c.failed THEN c
    ELSE
        LET id == c.sq.holdings + 1
        IN  [c EXCEPT !.sq.holdings = id,
                      !.t.holdings = @ \cup
                          { [id |-> id, investor_id |-> key[1], stock_id |-> key[2],
                             percent_holding |-> holding.percent_holding,
                             shares |-> holding.shares,
                             reported_date |-> holding.reported_date,
                             created_at |-> c.now, updated_at |-> c.now] }]

\* db.py 178-194: INSERT INTO holdings ... ON CONFLICT ON CONSTRAINT
\* uq_holdings_investor_stock DO UPDATE SET percent_holding, shares,
\* reported_date, updated_at
HoldingsUpsertRow(cx, key, holding) ==
    LET c == Execute(cx) IN
    IF c.failed THEN c
    ELSE
        LET id == c.sq.holdings + 1
            hit == { r \in c.t.holdings : r.investor_id = key[1] /\ r.stock_id = key[2] }
        IN  IF hit = {}
            THEN [c EXCEPT !.sq.holdings = id,
                           !.t.holdings = @ \cup
                               { [id |-> id, investor_id |-> key[1], stock_id |-> key[2],
                                  percent_holding |-> holding.percent_holding,
                                  shares |-> holding.shares,
                                  reported_date |-> holding.reported_date,
                                  created_at |-> c.now, updated_at |-> c.now] }]
            ELSE LET old == CHOOSE r \in hit : TRUE IN
                 [c EXCEPT !.sq.holdings = id,
                           !.t.holdings = (@ \ {old}) \cup
                               { [old EXCEPT !.percent_holding = holding.percent_holding,
                                             !.shares = holding.shares,
                                             !.reported_date = holding.reported_date,
                                             !.updated_at = c.now] }]

\* db.py 177: the loop over grouped.items(), from item i on.
RECURSIVE HoldingsUpsertAll(_, _, _)
HoldingsUpsertAll(cx, grouped, i) ==
    IF i > Len(grouped) \/ cx.failed THEN cx
    ELSE HoldingsUpsertAll(HoldingsUpsertRow(cx, grouped[i].key, grouped[i].rec),
                           grouped, i + 1)

\* A reconciliation that would upsert and never delete.
HoldingsRemoveStale_KeepAll(cx, grouped) == Execute(cx)

\* A reconciliation that would also drop the stocks no holding refers to.
HoldingsRemoveStale_DropOrphans(cx, grouped) ==
    LET c == Execute(cx) IN
    IF c.failed THEN c
    ELSE
        LET to_keep == DictKeys(grouped)
            kept == { r \in c.t.holdings : <<r.investor_id, r.stock_id>> \in to_keep }
        IN  [c EXCEPT !.t.holdings = kept,
                      !.t.stocks = { st \in @ : \E r \in kept : r.stock_id = st.id },
                      !.removed = Cardinality(c.t.holdings \ kept)]

\* db.py 196-201: select the existing rows and delete those whose key is not
\* in to_keep; the DELETE is executed only when there is a row to remove.
HoldingsRemoveStale(cx, grouped) ==
    LET c == Execute(cx) IN
    IF c.failed THEN c
    ELSE
        LET to_keep == DictKeys(grouped)
            to_remove == { row.id : row \in
                             { r \in c.t.holdings : <<r.investor_id, r.stock_id>> \notin to_keep } }
        IN  IF to_remove = {} THEN c
            ELSE LET c2 == Execute(c) IN
                 IF c2.failed THEN c2
                 ELSE [c2 EXCEPT !.t.holdings = { r \in @ : r.id \notin to_remove },
                                 !.removed = Cardinality(to_remove)]

\* db.py 166-206: the body of sync_holdings on a connection.
HoldingsBody(cx, holdings_data) ==
    LET st == HoldingsResolve(cx, <<>>, holdings_data, 1)
        c2 == HoldingsUpsertAll(st.cx, st.grouped, 1)
    IN  HoldingsRemoveStale(c2, st.grouped)

\* sync_holdings(engine, holdings_data) on tables t at time now, the failAt-th
\* statement raising: the tables and sequences afterwards, and whether it returned.
sync_holdings(t, sq, now, holdings_data, failAt) ==
    session(t, HoldingsBody(Connect(t, sq, now, failAt), holdings_data))

\* -------------------------------------------------------------- _sync_deals
\* db.py 212-216
RECURSIVE DealsResolve(_, _, _, _)
DealsResolve(cx, grouped, deals_data, i) ==
    IF i > Len(deals_data) \/ cx.failed THEN [cx |-> cx, grouped |-> grouped]
    ELSE
        LET deal == deals_data[i]
            c1 == _upsert_investor(cx, deal.investor, deal.source_url)
            c2 == _upsert_stock(c1, deal.ticker)
        IN  IF c2.failed THEN [cx |-> c2, grouped |-> grouped]
            ELSE DealsResolve(c2, DictSet(grouped, <<c1.ret, c2.ret, deal.deal_date>>, deal),
                              deals_data, i + 1)

\* An upsert that would stamp the conflicting row as created now.
DealsUpsertRow_Restamp(cx, table, key, deal) ==
    LET c == Execute(cx) IN
    IF c.failed THEN c
    ELSE
        LET id == c.sq[table] + 1
            hit == { r \in c.t[table] : /\ r.investor_id = key[1]
                                         /\ r.stock_id = key[2]
                                         /\ r.deal_date = key[3] }
        IN  [c EXCEPT !.sq[table] = id,
                      !.t[table] = (@ \ hit) \cup
                          { [id |-> IF hit = {} THEN id ELSE (CHOOSE r \in hit : TRUE).id,
                             investor_id |-> key[1], stock_id |-> key[2],
                             deal_date |-> key[3],
                             quantity |-> deal.quantity, price |-> deal.price,
                             created_at |-> c.now, updated_at |-> c.now] }]

\* db.py 219-234: INSERT INTO <table> ... ON CONFLICT ON CONSTRAINT <constraint>
\* DO UPDATE SET quantity, price, updated_at
DealsUpsertRow(cx, table, key, deal) ==
    LET c == Execute(cx) IN
    IF c.failed THEN c
    ELSE
        LET id == c.sq[table] + 1
            hit == { r \in c.t[table] : /\ r.investor_id = key[1]
                                         /\ r.stock_id = key[2]
                                         /\ r.deal_date = key[3] }
        IN  IF hit = {}
            THEN [c EXCEPT !.sq[table] = id,
                           !.t[table] = @ \cup
                               { [id |-> id, investor_id |-> key[1], stock_id |-> key[2],
                                  deal_date |-> key[3],
                                  quantity |-> deal.quantity, price |-> deal.price,
                                  created_at |-> c.now, updated_at |-> c.now] }]
            ELSE LET old == CHOOSE r \in hit : TRUE IN
                 [c EXCEPT !.sq[table] = id,
                           !.t[table] = (@ \ {old}) \cup
                               { [old EXCEPT !.quantity = deal.quantity,
                                             !.price = deal.price,
                                             !.updated_at = c.now] }]

\* db.py 218
RECURSIVE DealsUpsertAll(_, _, _, _)
DealsUpsertAll(cx, table, grouped, i) ==
    IF i > Len(grouped) \/ cx.failed THEN cx
    ELSE DealsUpsertAll(DealsUpsertRow(cx, table, grouped[i].key, grouped[i].rec),
                        table, grouped, i + 1)

\* db.py 236-245
DealsRemoveStale(cx, table, grouped) ==
    LET c == Execute(cx) IN
    IF c.failed THEN c
    ELSE
        LET to_keep == DictKeys(grouped)
            to_remove == { row.id : row \in
                             { r \in c.t[table] :
                                 <<r.investor_id, r.stock_id, r.deal_date>> \notin to_keep } }
        IN  IF to_remove = {} THEN c
            ELSE LET c2 == Execute(c) IN
                 IF c2.failed THEN c2
                 ELSE [c2 EXCEPT !.t[table] = { r \in @ : r.id \notin to_remove },
                                 !.removed = Cardinality(to_remove)]

\* _sync_deals(engine, deals_data, table, constraint)
_sync_deals(t, sq, now, deals_data, table, failAt) ==
    LET cx == Connect(t, sq, now, failAt)
        st == DealsResolve(cx, <<>>, deals_data, 1)
        c2 == DealsUpsertAll(st.cx, table, st.grouped, 1)
    IN  session(t, DealsRemoveStale(c2, table, st.grouped))

\* str.lower() on the texts that occur as deal_type and side.
Lower(s) ==
    CASE s = "BUY" -> "buy" [] s = "Buy" -> "buy"
      [] s = "SELL" -> "sell" [] s = "Sell" -> "sell"
      [] s = "BULK" -> "bulk" [] s = "Bulk" -> "bulk"
      [] s = "BLOCK" -> "block" [] s = "Block" -> "block"
      [] OTHER -> s

\* str.upper() on the texts that occur as ticker.
Upper(s) ==
    CASE s = "x" -> "X" [] s = "y" -> "Y" [] OTHER -> s

\* A filter that would look at the kind only.
DealFilter_AnySide(deals_data, kind) ==
    SelectSeq(deals_data, LAMBDA deal : Lower(deal.deal_type) = kind)

\* [deal for deal in deals_data if deal.deal_type.lower() == kind and deal.side.lower() == "buy"]
DealFilter(deals_data, kind) ==
    SelectSeq(deals_data, LAMBDA deal : Lower(deal.deal_type) = kind /\ Lower(deal.side) = "buy")

sync_bulk_deals(t, sq, now, deals_data, failAt) ==
    _sync_deals(t, sq, now, DealFilter(deals_data, "bulk"), "bulk_deals", failAt)

\* sync_block_deals handed the table and the constraint of the bulk deals.
sync_block_deals_IntoBulk(t, sq, now, deals_data, failAt) ==
    _sync_deals(t, sq, now, DealFilter(deals_data, "block"), "bulk_deals", failAt)

sync_block_deals(t, sq, now, deals_data, failAt) ==
    _sync_deals(t, sq, now, DealFilter(deals_data, "block"), "block_deals", failAt)

\* ------------------------------------------------------------------- texts
\* A text is the sequence of its characters.  A character up to U+00FF is the
\* string that holds it; a character above U+00FF, which a string of this
\* module cannot hold, is the string of its code point ("U+0663").
Digits == {"0", "1", "2", "3", "4", "5", "6", "7", "8", "9"}

\* Py_ISSPACE: the blank, \t, \n, the vertical tab (U+000B), \f and \r.
AsciiSpace == {" ", "\t", "\n", "", "\f", "\r"}

\* The whitespace above U+007F: U+0085, U+00A0 and the spaces of Unicode.
UnicodeSpace ==
    {"", " ", "U+1680", "U+2000", "U+2001", "U+2002", "U+2003", "U+2004", "U+2005", "U+2006",
     "U+2007", "U+2008", "U+2009", "U+200A", "U+2028", "U+2029", "U+202F", "U+205F", "U+3000"}

\* str.isspace(): the above and the separators U+001C to U+001F.
Whitespace ==
    AsciiSpace \cup UnicodeSpace \cup {"", "", "", ""}

\* Py_UNICODE_TODECIMAL: the characters of each decimal value, 0 to 9 (the
\* class Nd of Unicode 14, the tables of CPython 3.11).
DecimalDigits ==
    << {"0", "U+0660", "U+06F0", "U+07C0", "U+0966", "U+09E6", "U+0A66", "U+0AE6", "U+0B66",
        "U+0BE6", "U+0C66", "U+0CE6", "U+0D66", "U+0DE6", "U+0E50", "U+0ED0", "U+0F20",
        "U+1040", "U+1090", "U+17E0", "U+1810", "U+1946", "U+19D0", "U+1A80", "U+1A90",
        "U+1B50", "U+1BB0", "U+1C40", "U+1C50", "U+A620", "U+A8D0", "U+A900", "U+A9D0",
        "U+A9F0", "U+AA50", "U+ABF0", "U+FF10", "U+104A0", "U+10D30", "U+11066", "U+110F0",
        "U+11136", "U+111D0", "U+112F0", "U+11450", "U+114D0", "U+11650", "U+116C0", "U+11730",
        "U+118E0", "U+11950", "U+11C50", "U+11D50", "U+11DA0", "U+16A60", "U+16AC0", "U+16B50",
        "U+1D7CE", "U+1D7D8", "U+1D7E2", "U+1D7EC", "U+1D7F6", "U+1E140", "U+1E2F0", "U+1E950",
        "U+1FBF0"},
       {"1", "U+0661", "U+06F1", "U+07C1", "U+0967", "U+09E7", "U+0A67", "U+0AE7", "U+0B67",
        "U+0BE7", "U+0C67", "U+0CE7", "U+0D67", "U+0DE7", "U+0E51", "U+0ED1", "U+0F21",
        "U+1041", "U+1091", "U+17E1", "U+1811", "U+1947", "U+19D1", "U+1A81", "U+1A91",
        "U+1B51", "U+1BB1", "U+1C41", "U+1C51", "U+A621", "U+A8D1", "U+A901", "U+A9D1",
        "U+A9F1", "U+AA51", "U+ABF1", "U+FF11", "U+104A1", "U+10D31", "U+11067", "U+110F1",
        "U+11137", "U+111D1", "U+112F1", "U+11451", "U+114D1", "U+11651", "U+116C1", "U+11731",
        "U+118E1", "U+11951", "U+11C51", "U+11D51", "U+11DA1", "U+16A61", "U+16AC1", "U+16B51",
        "U+1D7CF", "U+1D7D9", "U+1D7E3", "U+1D7ED", "U+1D7F7", "U+1E141", "U+1E2F1", "U+1E951",
        "U+1FBF1"},
       {"2", "U+0662", "U+06F2", "U+07C2", "U+0968", "U+09E8", "U+0A68", "U+0AE8", "U+0B68",
        "U+0BE8", "U+0C68", "U+0CE8", "U+0D68", "U+0DE8", "U+0E52", "U+0ED2", "U+0F22",
        "U+1042", "U+1092", "U+17E2", "U+1812", "U+1948", "U+19D2", "U+1A82", "U+1A92",
        "U+1B52", "U+1BB2", "U+1C42", "U+1C52", "U+A622", "U+A8D2", "U+A902", "U+A9D2",
        "U+A9F2", "U+AA52", "U+ABF2", "U+FF12", "U+104A2", "U+10D32", "U+11068", "U+110F2",
        "U+11138", "U+111D2", "U+112F2", "U+11452", "U+114D2", "U+11652", "U+116C2", "U+11732",
        "U+118E2", "U+11952", "U+11C52", "U+11D52", "U+11DA2", "U+16A62", "U+16AC2", "U+16B52",
        "U+1D7D0", "U+1D7DA", "U+1D7E4", "U+1D7EE", "U+1D7F8", "U+1E142", "U+1E2F2", "U+1E952",
        "U+1FBF2"},
       {"3", "U+0663", "U+06F3", "U+07C3", "U+0969", "U+09E9", "U+0A69", "U+0AE9", "U+0B69",
        "U+0BE9", "U+0C69", "U+0CE9", "U+0D69", "U+0DE9", "U+0E53", "U+0ED3", "U+0F23",
        "U+1043", "U+1093", "U+17E3", "U+1813", "U+1949", "U+19D3", "U+1A83", "U+1A93",
        "U+1B53", "U+1BB3", "U+1C43", "U+1C53", "U+A623", "U+A8D3", "U+A903", "U+A9D3",
        "U+A9F3", "U+AA53", "U+ABF3", "U+FF13", "U+104A3", "U+10D33", "U+11069", "U+110F3",
        "U+11139", "U+111D3", "U+112F3", "U+11453", "U+114D3", "U+11653", "U+116C3", "U+11733",
        "U+118E3", "U+11953", "U+11C53", "U+11D53", "U+11DA3", "U+16A63", "U+16AC3", "U+16B53",
        "U+1D7D1", "U+1D7DB", "U+1D7E5", "U+1D7EF", "U+1D7F9", "U+1E143", "U+1E2F3", "U+1E953",
        "U+1FBF3"},
       {"4", "U+0664", "U+06F4", "U+07C4", "U+096A", "U+09EA", "U+0A6A", "U+0AEA", "U+0B6A",
        "U+0BEA", "U+0C6A", "U+0CEA", "U+0D6A", "U+0DEA", "U+0E54", "U+0ED4", "U+0F24",
        "U+1044", "U+1094", "U+17E4", "U+1814", "U+194A", "U+19D4", "U+1A84", "U+1A94",
        "U+1B54", "U+1BB4", "U+1C44", "U+1C54", "U+A624", "U+A8D4", "U+A904", "U+A9D4",
        "U+A9F4", "U+AA54", "U+ABF4", "U+FF14", "U+104A4", "U+10D34", "U+1106A", "U+110F4",
        "U+1113A", "U+111D4", "U+112F4", "U+11454", "U+114D4", "U+11654", "U+116C4", "U+11734",
        "U+118E4", "U+11954", "U+11C54", "U+11D54", "U+11DA4", "U+16A64", "U+16AC4", "U+16B54",
        "U+1D7D2", "U+1D7DC", "U+1D7E6", "U+1D7F0", "U+1D7FA", "U+1E144", "U+1E2F4", "U+1E954",
        "U+1FBF4"},
       {"5", "U+0665", "U+06F5", "U+07C5", "U+096B", "U+09EB", "U+0A6B", "U+0AEB", "U+0B6B",
        "U+0BEB", "U+0C6B", "U+0CEB", "U+0D6B", "U+0DEB", "U+0E55", "U+0ED5", "U+0F25",
        "U+1045", "U+1095", "U+17E5", "U+1815", "U+194B", "U+19D5", "U+1A85", "U+1A95",
        "U+1B55", "U+1BB5", "U+1C45", "U+1C55", "U+A625", "U+A8D5", "U+A905", "U+A9D5",
        "U+A9F5", "U+AA55", "U+ABF5", "U+FF15", "U+104A5", "U+10D35", "U+1106B", "U+110F5",
        "U+1113B", "U+111D5", "U+112F5", "U+11455", "U+114D5", "U+11655", "U+116C5", "U+11735",
        "U+118E5", "U+11955", "U+11C55", "U+11D55", "U+11DA5", "U+16A65", "U+16AC5", "U+16B55",
        "U+1D7D3", "U+1D7DD", "U+1D7E7", "U+1D7F1", "U+1D7FB", "U+1E145", "U+1E2F5", "U+1E955",
        "U+1FBF5"},
       {"6", "U+0666", "U+06F6", "U+07C6", "U+096C", "U+09EC", "U+0A6C", "U+0AEC", "U+0B6C",
        "U+0BEC", "U+0C6C", "U+0CEC", "U+0D6C", "U+0DEC", "U+0E56", "U+0ED6", "U+0F26",
        "U+1046", "U+1096", "U+17E6", "U+1816", "U+194C", "U+19D6", "U+1A86", "U+1A96",
        "U+1B56", "U+1BB6", "U+1C46", "U+1C56", "U+A626", "U+A8D6", "U+A906", "U+A9D6",
        "U+A9F6", "U+AA56", "U+ABF6", "U+FF16", "U+104A6", "U+10D36", "U+1106C", "U+110F6",
        "U+1113C", "U+111D6", "U+112F6", "U+11456", "U+114D6", "U+11656", "U+116C6", "U+11736",
        "U+118E6", "U+11956", "U+11C56", "U+11D56", "U+11DA6", "U+16A66", "U+16AC6", "U+16B56",
        "U+1D7D4", "U+1D7DE", "U+1D7E8", "U+1D7F2", "U+1D7FC", "U+1E146", "U+1E2F6", "U+1E956",
        "U+1FBF6"},
       {"7", "U+0667", "U+06F7", "U+07C7", "U+096D", "U+09ED", "U+0A6D", "U+0AED", "U+0B6D",
        "U+0BED", "U+0C6D", "U+0CED", "U+0D6D", "U+0DED", "U+0E57", "U+0ED7", "U+0F27",
        "U+1047", "U+1097", "U+17E7", "U+1817", "U+194D", "U+19D7", "U+1A87", "U+1A97",
        "U+1B57", "U+1BB7", "U+1C47", "U+1C57", "U+A627", "U+A8D7", "U+A907", "U+A9D7",
        "U+A9F7", "U+AA57", "U+ABF7", "U+FF17", "U+104A7", "U+10D37", "U+1106D", "U+110F7",
        "U+1113D", "U+111D7", "U+112F7", "U+11457", "U+114D7", "U+11657", "U+116C7", "U+11737",
        "U+118E7", "U+11957", "U+11C57", "U+11D57", "U+11DA7", "U+16A67", "U+16AC7", "U+16B57",
        "U+1D7D5", "U+1D7DF", "U+1D7E9", "U+1D7F3", "U+1D7FD", "U+1E147", "U+1E2F7", "U+1E957",
        "U+1FBF7"},
       {"8", "U+0668", "U+06F8", "U+07C8", "U+096E", "U+09EE", "U+0A6E", "U+0AEE", "U+0B6E",
        "U+0BEE", "U+0C6E", "U+0CEE", "U+0D6E", "U+0DEE", "U+0E58", "U+0ED8", "U+0F28",
        "U+1048", "U+1098", "U+17E8", "U+1818", "U+194E", "U+19D8", "U+1A88", "U+1A98",
        "U+1B58", "U+1BB8", "U+1C48", "U+1C58", "U+A628", "U+A8D8", "U+A908", "U+A9D8",
        "U+A9F8", "U+AA58", "U+ABF8", "U+FF18", "U+104A8", "U+10D38", "U+1106E", "U+110F8",
        "U+1113E", "U+111D8", "U+112F8", "U+11458", "U+114D8", "U+11658", "U+116C8", "U+11738",
        "U+118E8", "U+11958", "U+11C58", "U+11D58", "U+11DA8", "U+16A68", "U+16AC8", "U+16B58",
        "U+1D7D6", "U+1D7E0", "U+1D7EA", "U+1D7F4", "U+1D7FE", "U+1E148", "U+1E2F8", "U+1E958",
        "U+1FBF8"},
       {"9", "U+0669", "U+06F9", "U+07C9", "U+096F", "U+09EF", "U+0A6F", "U+0AEF", "U+0B6F",
        "U+0BEF", "U+0C6F", "U+0CEF", "U+0D6F", "U+0DEF", "U+0E59", "U+0ED9", "U+0F29",
        "U+1049", "U+1099", "U+17E9", "U+1819", "U+194F", "U+19D9", "U+1A89", "U+1A99",
        "U+1B59", "U+1BB9", "U+1C49", "U+1C59", "U+A629", "U+A8D9", "U+A909", "U+A9D9",
        "U+A9F9", "U+AA59", "U+ABF9", "U+FF19", "U+104A9", "U+10D39", "U+1106F", "U+110F9",
        "U+1113F", "U+111D9", "U+112F9", "U+11459", "U+114D9", "U+11659", "U+116C9", "U+11739",
        "U+118E9", "U+11959", "U+11C59", "U+11D59", "U+11DA9", "U+16A69", "U+16AC9", "U+16B59",
        "U+1D7D7", "U+1D7E1", "U+1D7EB", "U+1D7F5", "U+1D7FF", "U+1E149", "U+1E2F9", "U+1E959",
        "U+1FBF9"} >>

DecimalDigit == UNION { DecimalDigits[v] : v \in 1..10 }

DigitValue(c) == (CHOOSE v \in 1..10 : c \in DecimalDigits[v]) - 1

\* str.strip(): the text without the whitespace at its ends.
LStripOf(text, space) ==
    IF \A i \in DOMAIN text : text[i] \in space THEN <<>>
    ELSE SubSeq(text,
                CHOOSE i \in DOMAIN text :
                    text[i] \notin space /\ \A j \in 1..(i - 1) : text[j] \in space,
                Len(text))
RStripOf(text, space) ==
    IF \A i \in DOMAIN text : text[i] \in space THEN <<>>
    ELSE SubSeq(text, 1,
                CHOOSE i \in DOMAIN text :
                    text[i] \notin space /\ \A j \in (i + 1)..Len(text) : text[j] \in space)
LStrip(text) == LStripOf(text, Whitespace)
RStrip(text) == RStripOf(text, Whitespace)
Strip(text) == RStrip(LStrip(text))

\* _PyUnicode_TransformDecimalAndSpaceToASCII, by which int() and float() read
\* a str: a space above U+007F becomes a blank and a decimal digit its ASCII
\* digit (every other character above U+007F becomes "?", which no number
\* holds; it is left as it is).
TransformDecimalAndSpaceToASCII(text) ==
    [i \in DOMAIN text |->
        IF text[i] \in UnicodeSpace THEN " "
        ELSE IF text[i] \in DecimalDigit
        THEN <<"0", "1", "2", "3", "4", "5", "6", "7", "8", "9">>[DigitValue(text[i]) + 1]
        ELSE text[i]]

\* What int() and float() parse: the transformed text without the Py_ISSPACE
\* characters at its ends.
Numeral(text) ==
    RStripOf(LStripOf(TransformDecimalAndSpaceToASCII(text), AsciiSpace), AsciiSpace)

\* digit (["_"] digit)*
DigitPart(s) ==
    /\ s # <<>>
    /\ \A i \in DOMAIN s : s[i] \in Digits \cup {"_"}
    /\ s[1] \in Digits /\ s[Len(s)] \in Digits
    /\ \A i \in 1..(Len(s) - 1) : ~(s[i] = "_" /\ s[i + 1] = "_")

RECURSIVE DecimalValue(_, _)
DecimalValue(digits, acc) ==
    IF digits = <<>> THEN acc
    ELSE DecimalValue(Tail(digits), 10 * acc + DigitValue(Head(digits)))

\* sys.get_int_max_str_digits() of CPython 3.11 and later (and of the
\* security releases of 3.7 to 3.10).
int_max_str_digits == 4300

\* PyLong_FromString, base 10: an optional sign, then digits with single
\* underscores between them, at most int_max_str_digits digits; anything
\* else is a ValueError.
PyLong_FromString(t) ==
    LET signed == t # <<>> /\ Head(t) \in {"+", "-"}
        body == IF signed THEN Tail(t) ELSE t
        digits == SelectSeq(body, LAMBDA c : c # "_")
    IN  IF ~DigitPart(body) \/ Len(digits) > int_max_str_digits
        THEN [raised |-> TRUE, value |-> 0]
        ELSE [raised |-> FALSE,
              value |-> IF signed /\ Head(t) = "-"
                        THEN 0 - DecimalValue(digits, 0) ELSE DecimalValue(digits, 0)]

\* int(text) of a str
int(text) == PyLong_FromString(Numeral(text))

\* The characters of the texts that are written as strings in this module:
\* the cells of the pages, the locations and the host fragments.
Text(s) ==
    CASE s = "" ->
           <<>>
      [] s = "12.34%" ->
           <<"1", "2", ".", "3", "4", "%">>
      [] s = "1,234" ->
           <<"1", ",", "2", "3", "4">>
      [] s = "05-01-2024" ->
           <<"0", "5", "-", "0", "1", "-", "2", "0", "2", "4">>
      [] s = "n/a" ->
           <<"n", "/", "a">>
      [] s = "10.5" ->
           <<"1", "0", ".", "5">>
      [] s = "99.0" ->
           <<"9", "9", ".", "0">>
      [] s = "100" ->
           <<"1", "0", "0">>
      [] s = "700" ->
           <<"7", "0", "0">>
      [] s = "600" ->
           <<"6", "0", "0">>
      [] s = "900" ->
           <<"9", "0", "0">>
      [] s = "https://www.screener.in/a" ->
           <<"h", "t", "t", "p", "s", ":", "/", "/", "w", "w", "w", ".", "s", "c", "r", "e", "e", "n", "e", "r", ".", "i", "n", "/", "a">>
      [] s = "https://www.screener.in/b" ->
           <<"h", "t", "t", "p", "s", ":", "/", "/", "w", "w", "w", ".", "s", "c", "r", "e", "e", "n", "e", "r", ".", "i", "n", "/", "b">>
      [] s = "https://trendlyne.com/a" ->
           <<"h", "t", "t", "p", "s", ":", "/", "/", "t", "r", "e", "n", "d", "l", "y", "n", "e", ".", "c", "o", "m", "/", "a">>
      [] s = "https://trendlyne.com/b" ->
           <<"h", "t", "t", "p", "s", ":", "/", "/", "t", "r", "e", "n", "d", "l", "y", "n", "e", ".", "c", "o", "m", "/", "b">>
      [] s = "https://example.com/a" ->
           <<"h", "t", "t", "p", "s", ":", "/", "/", "e", "x", "a", "m", "p", "l", "e", ".", "c", "o", "m", "/", "a">>
      [] s = "screener.in" ->
           <<"s", "c", "r", "e", "e", "n", "e", "r", ".", "i", "n">>
      [] s = "trendlyne.com" ->
           <<"t", "r", "e", "n", "d", "l", "y", "n", "e", ".", "c", "o", "m">>

\* ----------------------------------------------------------- field parsers
\* sources/utils.py.  The argument is a text or None (Absent); the result
\* tells whether the call raised, whether it returned None, and the value.
Absent == <<"None">>

\* `if not value`: None and the empty text.
Falsy(value) == value = Absent \/ value = <<>>

\* str.replace(c, "") and re.sub(class, "", text): the characters of text
\* that are not in drop, and those that are in keep.
Without(text, drop) == SelectSeq(text, LAMBDA c : c \notin drop)
Only(text, keep) == SelectSeq(text, LAMBDA c : c \in keep)

\* A float as the decimal number mant / 10^scale with its sign, or inf, or
\* nan: a finite float is written as the shortest decimal that was read for
\* it, mant without a zero at its end.
Float(neg, mant, scale) == [kind |-> "finite", neg |-> neg, mant |-> mant, scale |-> scale]
FloatInf(neg) == [kind |-> "inf", neg |-> neg, mant |-> 0, scale |-> 0]
FloatNan == [kind |-> "nan", neg |-> FALSE, mant |-> 0, scale |-> 0]

\* The decimal digits of 2^1024 - 2^970, the number halfway between the
\* largest double and 2^1024: 0.d1 d2 ... times 10^309.
HalfwayToInfinity ==
    << 1, 7, 9, 7, 6, 9, 3, 1, 3, 4, 8, 6, 2, 3, 1, 5, 8, 0, 7, 9, 3, 7, 2, 8, 9, 7, 1, 4, 0,
       5, 3, 0, 3, 4, 1, 5, 0, 7, 9, 9, 3, 4, 1, 3, 2, 7, 1, 0, 0, 3, 7, 8, 2, 6, 9, 3, 6, 1,
       7, 3, 7, 7, 8, 9, 8, 0, 4, 4, 4, 9, 6, 8, 2, 9, 2, 7, 6, 4, 7, 5, 0, 9, 4, 6, 6, 4, 9,
       0, 1, 7, 9, 7, 7, 5, 8, 7, 2, 0, 7, 0, 9, 6, 3, 3, 0, 2, 8, 6, 4, 1, 6, 6, 9, 2, 8, 8,
       7, 9, 1, 0, 9, 4, 6, 5, 5, 5, 5, 4, 7, 8, 5, 1, 9, 4, 0, 4, 0, 2, 6, 3, 0, 6, 5, 7, 4,
       8, 8, 6, 7, 1, 5, 0, 5, 8, 2, 0, 6, 8, 1, 9, 0, 8, 9, 0, 2, 0, 0, 0, 7, 0, 8, 3, 8, 3,
       6, 7, 6, 2, 7, 3, 8, 5, 4, 8, 4, 5, 8, 1, 7, 7, 1, 1, 5, 3, 1, 7, 6, 4, 4, 7, 5, 7, 3,
       0, 2, 7, 0, 0, 6, 9, 8, 5, 5, 5, 7, 1, 3, 6, 6, 9, 5, 9, 6, 2, 2, 8, 4, 2, 9, 1, 4, 8,
       1, 9, 8, 6, 0, 8, 3, 4, 9, 3, 6, 4, 7, 5, 2, 9, 2, 7, 1, 9, 0, 7, 4, 1, 6, 8, 4, 4, 4,
       3, 6, 5, 5, 1, 0, 7, 0, 4, 3, 4, 2, 7, 1, 1, 5, 5, 9, 6, 9, 9, 5, 0, 8, 0, 9, 3, 0, 4,
       2, 8, 8, 0, 1, 7, 7, 9, 0, 4, 1, 7, 4, 4, 9, 7, 7, 9, 2 >>

\* The decimal digits of 2^-1075 = 5^1075 / 10^1075, half of the smallest
\* positive double: 0.d1 d2 ... times 10^-323.
HalfOfSmallest ==
    << 2, 4, 7, 0, 3, 2, 8, 2, 2, 9, 2, 0, 6, 2, 3, 2, 7, 2, 0, 8, 8, 2, 8, 4, 3, 9, 6, 4, 3,
       4, 1, 1, 0, 6, 8, 6, 1, 8, 2, 5, 2, 9, 9, 0, 1, 3, 0, 7, 1, 6, 2, 3, 8, 2, 2, 1, 2, 7,
       9, 2, 8, 4, 1, 2, 5, 0, 3, 3, 7, 7, 5, 3, 6, 3, 5, 1, 0, 4, 3, 7, 5, 9, 3, 2, 6, 4, 9,
       9, 1, 8, 1, 8, 0, 8, 1, 7, 9, 9, 6, 1, 8, 9, 8, 9, 8, 2, 8, 2, 3, 4, 7, 7, 2, 2, 8, 5,
       8, 8, 6, 5, 4, 6, 3, 3, 2, 8, 3, 5, 5, 1, 7, 7, 9, 6, 9, 8, 9, 8, 1, 9, 9, 3, 8, 7, 3,
       9, 8, 0, 0, 5, 3, 9, 0, 9, 3, 9, 0, 6, 3, 1, 5, 0, 3, 5, 6, 5, 9, 5, 1, 5, 5, 7, 0, 2,
       2, 6, 3, 9, 2, 2, 9, 0, 8, 5, 8, 3, 9, 2, 4, 4, 9, 1, 0, 5, 1, 8, 4, 4, 3, 5, 9, 3, 1,
       8, 0, 2, 8, 4, 9, 9, 3, 6, 5, 3, 6, 1, 5, 2, 5, 0, 0, 3, 1, 9, 3, 7, 0, 4, 5, 7, 6, 7,
       8, 2, 4, 9, 2, 1, 9, 3, 6, 5, 6, 2, 3, 6, 6, 9, 8, 6, 3, 6, 5, 8, 4, 8, 0, 7, 5, 7, 0,
       0, 1, 5, 8, 5, 7, 6, 9, 2, 6, 9, 9, 0, 3, 7, 0, 6, 3, 1, 1, 9, 2, 8, 2, 7, 9, 5, 5, 8,
       5, 5, 1, 3, 3, 2, 9, 2, 7, 8, 3, 4, 3, 3, 8, 4, 0, 9, 3, 5, 1, 9, 7, 8, 0, 1, 5, 5, 3,
       1, 2, 4, 6, 5, 9, 7, 2, 6, 3, 5, 7, 9, 5, 7, 4, 6, 2, 2, 7, 6, 6, 4, 6, 5, 2, 7, 2, 8,
       2, 7, 2, 2, 0, 0, 5, 6, 3, 7, 4, 0, 0, 6, 4, 8, 5, 4, 9, 9, 9, 7, 7, 0, 9, 6, 5, 9, 9,
       4, 7, 0, 4, 5, 4, 0, 2, 0, 8, 2, 8, 1, 6, 6, 2, 2, 6, 2, 3, 7, 8, 5, 7, 3, 9, 3, 4, 5,
       0, 7, 3, 6, 3, 3, 9, 0, 0, 7, 9, 6, 7, 7, 6, 1, 9, 3, 0, 5, 7, 7, 5, 0, 6, 7, 4, 0, 1,
       7, 6, 3, 2, 4, 6, 7, 3, 6, 0, 0, 9, 6, 8, 9, 5, 1, 3, 4, 0, 5, 3, 5, 5, 3, 7, 4, 5, 8,
       5, 1, 6, 6, 6, 1, 1, 3, 4, 2, 2, 3, 7, 6, 6, 6, 7, 8, 6, 0, 4, 1, 6, 2, 1, 5, 9, 6, 8,
       0, 4, 6, 1, 9, 1, 4, 4, 6, 7, 2, 9, 1, 8, 4, 0, 3, 0, 0, 5, 3, 0, 0, 5, 7, 5, 3, 0, 8,
       4, 9, 0, 4, 8, 7, 6, 5, 3, 9, 1, 7, 1, 1, 3, 8, 6, 5, 9, 1, 6, 4, 6, 2, 3, 9, 5, 2, 4,
       9, 1, 2, 6, 2, 3, 6, 5, 3, 8, 8, 1, 8, 7, 9, 6, 3, 6, 2, 3, 9, 3, 7, 3, 2, 8, 0, 4, 2,
       3, 8, 9, 1, 0, 1, 8, 6, 7, 2, 3, 4, 8, 4, 9, 7, 6, 6, 8, 2, 3, 5, 0, 8, 9, 8, 6, 3, 3,
       8, 8, 5, 8, 7, 9, 2, 5, 6, 2, 8, 3, 0, 2, 7, 5, 5, 9, 9, 5, 6, 5, 7, 5, 2, 4, 4, 5, 5,
       5, 0, 7, 2, 5, 5, 1, 8, 9, 3, 1, 3, 6, 9, 0, 8, 3, 6, 2, 5, 4, 7, 7, 9, 1, 8, 6, 9, 4,
       8, 6, 6, 7, 9, 9, 4, 9, 6, 8, 3, 2, 4, 0, 4, 9, 7, 0, 5, 8, 2, 1, 0, 2, 8, 5, 1, 3, 1,
       8, 5, 4, 5, 1, 3, 9, 6, 2, 1, 3, 8, 3, 7, 7, 2, 2, 8, 2, 6, 1, 4, 5, 4, 3, 7, 6, 9, 3,
       4, 1, 2, 5, 3, 2, 0, 9, 8, 5, 9, 1, 3, 2, 7, 6, 6, 7, 2, 3, 6, 3, 2, 8, 1, 2, 5 >>

\* 0.a1 a2 ... < 0.b1 b2 ..., for two sequences of digit values.
FractionLess(a, b) ==
    LET at(s, i) == IF i <= Len(s) THEN s[i] ELSE 0
        n == IF Len(a) > Len(b) THEN Len(a) ELSE Len(b)
    IN  \E i \in 1..n : at(a, i) < at(b, i) /\ \A j \in 1..(i - 1) : at(a, j) = at(b, j)

\* The digits without the zeros at their start, and at their end.
LStripZeros(digits) == LStripOf(digits, {"0"})
RStripZeros(digits) == RStripOf(digits, {"0"})

\* The double nearest to 0.d1 d2 ... times 10^point, d1 not 0, as far as its
\* kind goes: zero up to half of the smallest double (0.0 == -0.0), inf from
\* halfway to 2^1024 on, and between them the decimal itself.
Rounded(neg, digits, point) ==
    LET d == [i \in DOMAIN digits |-> DigitValue(digits[i])] IN
    IF \/ digits = <<>>
       \/ point < -323
       \/ (point = -323 /\ ~FractionLess(HalfOfSmallest, d))
    THEN Float(FALSE, 0, 0)
    ELSE IF point > 309 \/ (point = 309 /\ ~FractionLess(d, HalfwayToInfinity))
    THEN FloatInf(neg)
    ELSE Float(neg, DecimalValue(digits, 0), Len(digits) - point)

LowerChar(c) ==
    CASE c = "I" -> "i" [] c = "N" -> "n" [] c = "F" -> "f" [] c = "A" -> "a"
      [] c = "T" -> "t" [] c = "Y" -> "y" [] c = "E" -> "e" [] OTHER -> c

\* The position of the first c in s, Len(s) + 1 when there is none.
IndexOf(s, c) ==
    IF \E i \in DOMAIN s : s[i] = c
    THEN CHOOSE i \in DOMAIN s : s[i] = c /\ \A j \in 1..(i - 1) : s[j] # c
    ELSE Len(s) + 1

\* PyOS_string_to_double: an optional sign, then inf, infinity, nan, or a
\* decimal number with an optional exponent; anything else is a ValueError.
\* An exponent of more than nine digits is beyond every double.
PyOS_string_to_double(t) ==
    LET signed == t # <<>> /\ Head(t) \in {"+", "-"}
        neg == signed /\ Head(t) = "-"
        body == [i \in DOMAIN (IF signed THEN Tail(t) ELSE t) |->
                    LowerChar((IF signed THEN Tail(t) ELSE t)[i])]
        e == IndexOf(body, "e")
        number == SubSeq(body, 1, e - 1)
        exponent == SubSeq(body, e + 1, Len(body))
        dot == IndexOf(number, ".")
        whole == Without(SubSeq(number, 1, dot - 1), {"_"})
        fraction == Without(SubSeq(number, dot + 1, Len(number)), {"_"})
        significant == LStripZeros(whole \o fraction)
        zeros == Len(whole \o fraction) - Len(significant)
        power == IF exponent # <<>> /\ Head(exponent) \in {"+", "-"}
                 THEN Tail(exponent) ELSE exponent
        powerDigits == LStripZeros(Without(power, {"_"}))
        down == exponent # <<>> /\ Head(exponent) = "-"
        Raised == [raised |-> TRUE, value |-> Float(FALSE, 0, 0)]
    IN  IF body \in {<<"i", "n", "f">>, <<"i", "n", "f", "i", "n", "i", "t", "y">>}
        THEN [raised |-> FALSE, value |-> FloatInf(neg)]
        ELSE IF body = <<"n", "a", "n">>
        THEN [raised |-> FALSE, value |-> FloatNan]
        ELSE IF \/ (whole = <<>> /\ fraction = <<>>)
                \/ (dot > 1 /\ ~DigitPart(SubSeq(number, 1, dot - 1)))
                \/ (dot < Len(number) /\ ~DigitPart(SubSeq(number, dot + 1, Len(number))))
                \/ (e <= Len(body) /\ ~DigitPart(power))
        THEN Raised
        ELSE IF significant = <<>>
        THEN [raised |-> FALSE, value |-> Float(FALSE, 0, 0)]
        ELSE IF Len(powerDigits) > 9
        THEN [raised |-> FALSE,
              value |-> IF down THEN Float(FALSE, 0, 0) ELSE FloatInf(neg)]
        ELSE [raised |-> FALSE,
              value |-> Rounded(neg, RStripZeros(significant),
                                Len(whole) - zeros
                                  + (IF down THEN 0 - DecimalValue(powerDigits, 0)
                                     ELSE DecimalValue(powerDigits, 0)))]

\* float(text) of a str
float(text) == PyOS_string_to_double(Numeral(text))

NoFloat == [raised |-> FALSE, none |-> TRUE, value |-> Float(FALSE, 0, 0)]

\* utils.parse_float
parse_float(value) ==
    IF Falsy(value) THEN NoFloat
    ELSE
        LET cleaned == Without(Strip(value), {"%"})
            direct == float(cleaned)
            NON_DIGIT == Only(cleaned, Digits \cup {"."})
            again == float(NON_DIGIT)
        IN  IF ~direct.raised
            THEN [raised |-> FALSE, none |-> FALSE, value |-> direct.value]
            ELSE IF NON_DIGIT = <<>> THEN NoFloat
            ELSE [raised |-> again.raised, none |-> FALSE, value |-> again.value]

\* utils.parse_int
parse_int(value) ==
    IF Falsy(value) THEN [raised |-> FALSE, none |-> TRUE, value |-> 0]
    ELSE
        LET cleaned == Only(value, Digits)
            number == int(cleaned)
        IN  IF cleaned = <<>> THEN [raised |-> FALSE, none |-> TRUE, value |-> 0]
            ELSE [raised |-> number.raised, none |-> FALSE, value |-> number.value]

\* datetime.date(year, month, day) raises ValueError outside the calendar.
DaysIn(year, month) ==
    IF month \in {4, 6, 9, 11} THEN 30
    ELSE IF month = 2
    THEN (IF year % 4 = 0 /\ (year % 100 # 0 \/ year % 400 = 0) THEN 29 ELSE 28)
    ELSE 31

ValidDate(year, month, day) ==
    /\ 1 <= year /\ year <= 9999
    /\ 1 <= month /\ month <= 12
    /\ 1 <= day /\ day <= DaysIn(year, month)

DateSeparators == {"-", "/"}

\* The positions of the separators of a text.
SeparatorsOf(text) == { i \in DOMAIN text : text[i] \in DateSeparators }

\* A text of three numbers of one to four digits with the same separator
\* between them, exactly one of the numbers written with more than two
\* digits (the year: dateutil completes a shorter year from the current date).
NumericDate(text) ==
    /\ text # Absent
    /\ \A i \in DOMAIN text : text[i] \in Digits \cup DateSeparators
    /\ Cardinality(SeparatorsOf(text)) = 2
    /\ \A i, j \in SeparatorsOf(text) : text[i] = text[j]
    /\ LET a == CHOOSE i \in SeparatorsOf(text) : \A j \in SeparatorsOf(text) : i <= j
           b == CHOOSE i \in SeparatorsOf(text) : \A j \in SeparatorsOf(text) : j <= i
           lens == <<a - 1, b - a - 1, Len(text) - b>>
       IN  /\ \A k \in 1..3 : 1 <= lens[k] /\ lens[k] <= 4
           /\ Cardinality({ k \in 1..3 : lens[k] > 2 }) = 1

NoDate == [raised |-> FALSE, none |-> TRUE, value |-> [year |-> 0, month |-> 0, day |-> 0]]
DateError == [raised |-> TRUE, none |-> FALSE, value |-> [year |-> 0, month |-> 0, day |-> 0]]

\* resolve_ymd without dayfirst: an ambiguous date is read month first.
resolve_ymd_MonthFirst(v, ystridx) ==
    LET ymd == IF v[1] > 31 \/ ystridx = 1
               THEN [year |-> v[1], month |-> v[2], day |-> v[3]]
               ELSE IF v[1] > 12
               THEN [day |-> v[1], month |-> v[2], year |-> v[3]]
               ELSE [month |-> v[1], day |-> v[2], year |-> v[3]]
    IN  IF ValidDate(ymd.year, ymd.month, ymd.day)
        THEN [raised |-> FALSE, none |-> FALSE, value |-> ymd]
        ELSE DateError

\* dateutil's _ymd.resolve_ymd(yearfirst=False, dayfirst=True) for three
\* numbers of which the ystridx-th was recognised as the year by its length,
\* then datetime's check of the date.
resolve_ymd(v, ystridx) ==
    LET ymd == IF v[1] > 31 \/ ystridx = 1
               THEN (IF v[3] <= 12
                     THEN [year |-> v[1], day |-> v[2], month |-> v[3]]
                     ELSE [year |-> v[1], month |-> v[2], day |-> v[3]])
               ELSE IF v[1] > 12 \/ v[2] <= 12
               THEN [day |-> v[1], month |-> v[2], year |-> v[3]]
               ELSE [month |-> v[1], day |-> v[2], year |-> v[3]]
    IN  IF ValidDate(ymd.year, ymd.month, ymd.day)
        THEN [raised |-> FALSE, none |-> FALSE, value |-> ymd]
        ELSE DateError

\* utils.parse_date: dateutil's parser.parse(value, dayfirst=True).date() on
\* the texts that occur: numeric dates, and "n/a", in which the parser finds
\* no date (ParserError).
parse_date(value) ==
    CASE Falsy(value) -> NoDate
      [] NumericDate(value) ->
            LET a == CHOOSE i \in SeparatorsOf(value) : \A j \in SeparatorsOf(value) : i <= j
                b == CHOOSE i \in SeparatorsOf(value) : \A j \in SeparatorsOf(value) : j <= i
                fields == <<SubSeq(value, 1, a - 1), SubSeq(value, a + 1, b - 1),
                            SubSeq(value, b + 1, Len(value))>>
            IN  resolve_ymd([k \in 1..3 |-> DecimalValue(fields[k], 0)],
                            CHOOSE k \in 1..3 : Len(fields[k]) > 2)
      [] value = <<"n", "/", "a">> -> DateError

\* The values that occur in the rows of the tables, by their Python repr.
FloatName(v) ==
    CASE v = Float(FALSE, 1234, 2) -> "12.34"
      [] v = Float(FALSE, 105, 1) -> "10.5"
      [] v = Float(FALSE, 99, 0) -> "99.0"

IntName(v) ==
    CASE v = 1234 -> "1234" [] v = 100 -> "100" [] v = 700 -> "700"
      [] v = 600 -> "600" [] v = 900 -> "900"

DateName(v) ==
    CASE v = [year |-> 2024, month |-> 1, day |-> 5] -> "2024-01-05"

\* What a parser handed to the adapter: "raise" for its exception, None, or
\* the value.
OptionalFloat(r) == IF r.raised THEN "raise" ELSE IF r.none THEN None ELSE FloatName(r.value)
OptionalInt(r) == IF r.raised THEN "raise" ELSE IF r.none THEN None ELSE IntName(r.value)
OptionalDate(r) == IF r.raised THEN "raise" ELSE IF r.none THEN None ELSE DateName(r.value)

\* What the parsers make of the cells of the pages: each cell text is parsed
\* once and looked up afterwards.
FloatCell ==
    [s \in {"", "12.34%", "10.5", "99.0"} |-> OptionalFloat(parse_float(Text(s)))]
IntCell ==
    [s \in {"", "1,234", "100", "700", "600", "900"} |-> OptionalInt(parse_int(Text(s)))]
DateCell ==
    [s \in {"", "05-01-2024", "n/a"} |-> OptionalDate(parse_date(Text(s)))]

\* `from .utils import parse_date, parse_float, parse_int` of screener.py and
\* trendlyne.py: the parsers as the adapters hold them, handed on from the
\* run to the rows where they are called.
utils == [parse_float |-> FloatCell, parse_int |-> IntCell, parse_date |-> DateCell]

\* --------------------------------------------------------- source adapters
\* A response to session.get(url): its HTTP status (200, or 503 for a site
\* that is down) and the data rows of the table the adapter selects (the
\* cells as texts, the deal rows with the kind of the heading they stand
\* under).
HoldingRows ==
    { [ticker |-> "x", percent |-> "12.34%", shares |-> "1,234", reported |-> "05-01-2024"],
      [ticker |-> "Y", percent |-> "12.34%", shares |-> "1,234", reported |-> "n/a"] }

DealRows ==
    { [ticker |-> "X", date |-> "05-01-2024", side |-> "buy", quantity |-> "100",
       price |-> "10.5", kind |-> "bulk"],
      [ticker |-> "x", date |-> "05-01-2024", side |-> "buy", quantity |-> "100",
       price |-> "10.5", kind |-> "block"],
      [ticker |-> "X", date |-> "05-01-2024", side |-> "sell", quantity |-> "700",
       price |-> "99.0", kind |-> "bulk"],
      [ticker |-> "X", date |-> "05-01-2024", side |-> "sell", quantity |-> "700",
       price |-> "99.0", kind |-> "block"],
      [ticker |-> "X", date |-> "05-01-2024", side |-> "-", quantity |-> "600",
       price |-> "99.0", kind |-> "bulk"],
      [ticker |-> "X", date |-> "n/a", side |-> "buy", quantity |-> "900",
       price |-> "99.0", kind |-> "bulk"] }

Pages(rows, n) ==
    { [status |-> 200, rows |-> r] : r \in SeqsUpTo(rows, n) }
    \cup { [status |-> 503, rows |-> <<>>] }

\* What the two requests of one investor (fetch_holdings, fetch_deals) return.
Responses == [holdings : Pages(HoldingRows, MaxRows), deals : Pages(DealRows, MaxRows)]

\* The rows of fetch_holdings from row i on: the records yielded so far, and
\* whether the generator raised.
RECURSIVE YieldHoldings(_, _, _, _, _, _)
YieldHoldings(parse, investor, url, rows, i, items) ==
    IF i > Len(rows) THEN [items |-> items, raised |-> FALSE]
    ELSE
        LET row == rows[i]
            percent == parse.parse_float[row.percent]
            shares == parse.parse_int[row.shares]
            reported == parse.parse_date[row.reported]
        IN  IF percent = "raise" \/ shares = "raise" \/ reported = "raise"
            THEN [items |-> items, raised |-> TRUE]
            ELSE YieldHoldings(parse, investor, url, rows, i + 1,
                    Append(items,
                        Holding(investor, Upper(row.ticker), url,
                                [percent_holding |-> percent, shares |-> shares,
                                 reported_date |-> reported])))

\* The rows of fetch_deals from row i on.
RECURSIVE YieldDeals(_, _, _, _, _, _)
YieldDeals(parse, investor, url, rows, i, items) ==
    IF i > Len(rows) THEN [items |-> items, raised |-> FALSE]
    ELSE
        LET row == rows[i]
            deal_date == parse.parse_date[row.date]
            side_text == Lower(row.side)
            quantity == parse.parse_int[row.quantity]
            price == parse.parse_float[row.price]
        IN  IF deal_date = "raise" THEN [items |-> items, raised |-> TRUE]
            ELSE IF side_text \notin {"buy", "sell"} \/ deal_date = None
            THEN YieldDeals(parse, investor, url, rows, i + 1, items)
            ELSE IF quantity = "raise" \/ price = "raise"
            THEN [items |-> items, raised |-> TRUE]
            ELSE YieldDeals(parse, investor, url, rows, i + 1,
                    Append(items,
                        Deal(investor, Upper(row.ticker), url, deal_date,
                             [quantity |-> quantity, price |-> price],
                             row.kind, side_text)))

\* _get_soup: response.raise_for_status()
RaisesForStatus(page) == 400 <= page.status /\ page.status < 600

ScreenerSource_fetch_holdings(parse, investor, url, page) ==
    IF RaisesForStatus(page) THEN [items |-> <<>>, raised |-> TRUE]
    ELSE YieldHoldings(parse, investor, url, page.rows, 1, <<>>)

ScreenerSource_fetch_deals(parse, investor, url, page) ==
    IF RaisesForStatus(page) THEN [items |-> <<>>, raised |-> TRUE]
    ELSE YieldDeals(parse, investor, url, page.rows, 1, <<>>)

TrendlyneSource_fetch_holdings(parse, investor, url, page) ==
    IF RaisesForStatus(page) THEN [items |-> <<>>, raised |-> TRUE]
    ELSE YieldHoldings(parse, investor, url, page.rows, 1, <<>>)

TrendlyneSource_fetch_deals(parse, investor, url, page) ==
    IF RaisesForStatus(page) THEN [items |-> <<>>, raised |-> TRUE]
    ELSE YieldDeals(parse, investor, url, page.rows, 1, <<>>)

\* `fragment in url` of two str
Contains(url, fragment) ==
    \E i \in 0..(Len(url) - Len(fragment)) :
        SubSeq(url, i + 1, i + Len(fragment)) = fragment

\* create_source that falls back to an adapter when no fragment is found.
create_source_Guess(investor, url) ==
    IF Contains(url, Text("screener.in"))
    THEN [raised |-> FALSE, class |-> "ScreenerSource", investor |-> investor, url |-> url]
    ELSE [raised |-> FALSE, class |-> "TrendlyneSource", investor |-> investor, url |-> url]

\* sources.create_source: the adapter, of class ScreenerSource or
\* TrendlyneSource, constructed with investor and url, or the ValueError.
create_source(investor, url) ==
    IF Contains(url, Text("screener.in"))
    THEN [raised |-> FALSE, class |-> "ScreenerSource", investor |-> investor, url |-> url]
    ELSE IF Contains(url, Text("trendlyne.com"))
    THEN [raised |-> FALSE, class |-> "TrendlyneSource", investor |-> investor, url |-> url]
    ELSE [raised |-> TRUE, class |-> "ValueError", investor |-> investor, url |-> url]

\* The adapters of the locations that are configured: each location is
\* searched once and looked up afterwards.
Locations ==
    {"https://www.screener.in/a", "https://www.screener.in/b", "https://trendlyne.com/a",
     "https://trendlyne.com/b", "https://example.com/a"}
SourceOf == [url \in Locations |-> create_source(None, Text(url))]

fetch_holdings(parse, source, investor, url, page) ==
    IF source = "ScreenerSource" THEN ScreenerSource_fetch_holdings(parse, investor, url, page)
    ELSE TrendlyneSource_fetch_holdings(parse, investor, url, page)

fetch_deals(parse, source, investor, url, page) ==
    IF source = "ScreenerSource" THEN ScreenerSource_fetch_deals(parse, investor, url, page)
    ELSE TrendlyneSource_fetch_deals(parse, investor, url, page)

\* ------------------------------------------------------------- gather_data
\* runner.py 27-33, from the i-th configured investor on.  list.extend takes
\* the records a generator yields until it raises; fetch_deals is not called
\* when fetch_holdings raised.  fetched notes, per investor, what each fetch
\* yielded and whether the except clause was entered.
RECURSIVE GatherFrom(_, _, _, _, _, _, _)
GatherFrom(parse, sources, resp, i, holdings_data, deals_data, fetched) ==
    IF i > Len(sources)
    THEN [raised |-> FALSE, holdings |-> holdings_data, deals |-> deals_data,
          fetched |-> fetched]
    ELSE
        LET investor == sources[i].investor
            url == sources[i].url
            source == [SourceOf[url] EXCEPT !.investor = investor]
        IN  IF source.raised
            THEN [raised |-> TRUE, holdings |-> holdings_data, deals |-> deals_data,
                  fetched |-> fetched]
            ELSE
                LET h == fetch_holdings(parse, source.class, investor, url, resp[i].holdings)
                    d == IF h.raised THEN [items |-> <<>>, raised |-> FALSE]
                         ELSE fetch_deals(parse, source.class, investor, url, resp[i].deals)
                IN  GatherFrom(parse, sources, resp, i + 1,
                               holdings_data \o h.items, deals_data \o d.items,
                               Append(fetched,
                                      [investor |-> investor, holdings |-> h.items,
                                       deals |-> d.items,
                                       failed |-> h.raised \/ d.raised]))

\* A gather_data that would leave out the investors whose location no adapter
\* supports and go on with the others.
gather_data_SkipsUnsupported(parse, sources, resp) ==
    LET Supported(i) == ~SourceOf[sources[i].url].raised
        kept == SelectSeq([i \in 1..Len(sources) |-> i], Supported)
    IN  GatherFrom(parse, [k \in 1..Len(kept) |-> sources[kept[k]]],
                   [k \in 1..Len(kept) |-> resp[kept[k]]], 1, <<>>, <<>>, <<>>)

gather_data(parse, sources, resp) == GatherFrom(parse, sources, resp, 1, <<>>, <<>>, <<>>)

\* ------------------------------------------------------- the engine's calls
Tables ==
    [investors |-> investors, stocks |-> stocks, holdings |-> holdings,
     bulk_deals |-> bulk_deals, block_deals |-> block_deals]

\* The tables and sequences become those a call left behind.
Store(r) ==
    /\ investors' = r.t.investors
    /\ stocks' = r.t.stocks
    /\ holdings' = r.t.holdings
    /\ bulk_deals' = r.t.bulk_deals
    /\ block_deals' = r.t.block_deals
    /\ seq' = r.sq

EmptyTables ==
    [investors |-> {}, stocks |-> {}, holdings |-> {}, bulk_deals |-> {}, block_deals |-> {}]

\* The processes that call run_ingestion: the web application's scheduler job
\* and the command line (python -m portfolio_ingest.runner).
Procs == {"scheduler", "cli"}

\* Settings.investor_sources, in the order of the mapping.
InvestorSources ==
    << [investor |-> "A", url |-> "https://www.screener.in/a"],
       [investor |-> "B", url |-> "https://trendlyne.com/a"] >>

\* A process that is not in run_ingestion.
NoJob ==
    [holdings |-> <<>>, deals |-> <<>>, fetched |-> <<>>, before |-> EmptyTables,
     result |-> "none", failed_in |-> "none"]

\* No schedule operation has been made.
NoRequest ==
    [op |-> "none", ok |-> TRUE, updated |-> FALSE, given |-> {}, ret |-> {},
     before |-> {}]

\* The callers whose database sessions may be open at the same time.
Sessions == {"s1", "s2", "s3"}

\* No adapter function is under examination.
NoCall == [fn |-> "none", arg |-> <<>>, at |-> "idle", out |-> <<>>]

\* A caller that has not opened its session.
NoSession == [at |-> "idle", now |-> 0, saw |-> {}, wrote |-> {}, ret |-> {}]

InitRunner ==
    /\ tx = [p \in Sessions |-> NoSession]
    /\ call = NoCall
    /\ ingest_schedule = {}
    /\ scheduler = [running |-> FALSE, jobs |-> <<>>]
    /\ web = NoRequest
    /\ settings = InvestorSources
    /\ pc = [p \in Procs |-> "idle"]
    /\ job = [p \in Procs |-> NoJob]
    /\ runs = 0
    /\ skipped = 0
    /\ fails = 0
    /\ last = [op |-> "none", ok |-> TRUE, batch |-> <<>>, failAt |-> 0,
               removed |-> 0, again |-> FALSE]

Init ==
    /\ investors = {}
    /\ stocks = {}
    /\ holdings = {}
    /\ bulk_deals = {}
    /\ block_deals = {}
    /\ seq = [investors |-> 0, stocks |-> 0, holdings |-> 0, bulk_deals |-> 0, block_deals |-> 0]
    /\ clock = 0
    /\ InitRunner

\* The statements that may raise in a call that executes n of them (0: none).
FailPoints(n) == IF fails < MaxFails THEN 0..n ELSE {0}

\* A call of op on batch ended, leaving r behind.
Call(op, batch, r, failAt) ==
    /\ Store(r)
    /\ clock' = clock + 1
    /\ fails' = IF r.ok THEN fails ELSE fails + 1
    /\ last' = [op |-> op, ok |-> r.ok, batch |-> IF r.ok THEN batch ELSE <<>>,
                failAt |-> failAt, removed |-> r.removed,
                again |-> r.ok /\ last.ok /\ last.op = op /\ last.batch = batch]

SyncHoldings ==
    /\ clock < MaxOps
    /\ \E B \in HoldingBatches :
         \E failAt \in FailPoints(sync_holdings(Tables, seq, clock + 1, B, 0).count) :
            Call("sync_holdings", B, sync_holdings(Tables, seq, clock + 1, B, failAt), failAt)
    /\ UNCHANGED runvars
    /\ UNCHANGED <<schedvars, tx, call>>

SyncBulkDeals ==
    /\ clock < MaxOps
    /\ \E D \in DealBatches :
         \E failAt \in FailPoints(sync_bulk_deals(Tables, seq, clock + 1, D, 0).count) :
            Call("sync_bulk_deals", D, sync_bulk_deals(Tables, seq, clock + 1, D, failAt), failAt)
    /\ UNCHANGED runvars
    /\ UNCHANGED <<schedvars, tx, call>>

SyncBlockDeals ==
    /\ clock < MaxOps
    /\ \E D \in DealBatches :
         \E failAt \in FailPoints(sync_block_deals(Tables, seq, clock + 1, D, 0).count) :
            Call("sync_block_deals", D, sync_block_deals(Tables, seq, clock + 1, D, failAt), failAt)
    /\ UNCHANGED runvars
    /\ UNCHANGED <<schedvars, tx, call>>

Next == SyncHoldings \/ SyncBulkDeals \/ SyncBlockDeals

Spec == Init /\ [][Next]_vars

\* ------------------------------------------------------------ run_ingestion
\* The three reconciliation calls of run_ingestion with no failure, one
\* after the other, each in a transaction of its own.
Ingested(t, sq, now, holdings_data, deals_data) ==
    LET h == sync_holdings(t, sq, now, holdings_data, 0)
        b == sync_bulk_deals(h.t, h.sq, now + 1, deals_data, 0)
        k == sync_block_deals(b.t, b.sq, now + 2, deals_data, 0)
    IN  [t |-> k.t, sq |-> k.sq, clock |-> now + 2]

\* What an earlier run scraped: for each investor the holding of X and a bulk
\* and a block buy deal in X.
EarlierPages ==
    [i \in 1..Len(InvestorSources) |->
        [holdings |-> [status |-> 200,
                       rows |-> << [ticker |-> "X", percent |-> "12.34%",
                                    shares |-> "1,234", reported |-> "05-01-2024"] >>],
         deals |-> [status |-> 200,
                    rows |-> << [ticker |-> "X", date |-> "05-01-2024", side |-> "buy",
                                 quantity |-> "100", price |-> "10.5", kind |-> "bulk"],
                                [ticker |-> "X", date |-> "05-01-2024", side |-> "buy",
                                 quantity |-> "100", price |-> "10.5", kind |-> "block"] >>]]]

\* The database before a run: the fresh schema, or what an earlier run left.
Databases ==
    { [t |-> EmptyTables,
       sq |-> [investors |-> 0, stocks |-> 0, holdings |-> 0, bulk_deals |-> 0,
               block_deals |-> 0],
       clock |-> 0],
      LET g == gather_data(utils, InvestorSources, EarlierPages)
      IN  Ingested(EmptyTables,
                   [investors |-> 0, stocks |-> 0, holdings |-> 0, bulk_deals |-> 0,
                    block_deals |-> 0],
                   1, g.holdings, g.deals) }

InitRun ==
    /\ \E db \in Databases :
         /\ investors = db.t.investors
         /\ stocks = db.t.stocks
         /\ holdings = db.t.holdings
         /\ bulk_deals = db.t.bulk_deals
         /\ block_deals = db.t.block_deals
         /\ seq = db.sq
         /\ clock = db.clock
    /\ InitRunner

\* run_ingestion up to its first reconciliation call: gather_data over the
\* pages the sites answer with.  create_source raising ends the run there.
StartRun(p, parse, answers, maxRuns) ==
    /\ pc[p] = "idle"
    /\ runs < maxRuns
    /\ \E resp \in [1..Len(settings) -> answers] :
         LET g == gather_data(parse, settings, resp)
         IN  /\ job' = [job EXCEPT ![p] =
                    [holdings |-> g.holdings, deals |-> g.deals, fetched |-> g.fetched,
                     before |-> Tables,
                     result |-> IF g.raised THEN "failed" ELSE "running",
                     failed_in |-> IF g.raised THEN "create_source" ELSE "none"]]
             /\ pc' = [pc EXCEPT ![p] = IF g.raised THEN "idle" ELSE "sync_holdings"]
    /\ runs' = runs + 1
    /\ UNCHANGED <<tables, seq, clock, fails, last, settings, skipped>>
    /\ UNCHANGED <<schedvars, tx, call>>

\* A run whose failed call would never return to its caller: the process
\* stays inside run_ingestion.
Proceed_FailureHangs(p, op, ok, next) ==
    /\ pc' = [pc EXCEPT ![p] = IF ok THEN next ELSE "hung"]
    /\ job' = [job EXCEPT ![p].result =
                    IF ~ok THEN "failed" ELSE IF next = "idle" THEN "completed" ELSE @,
                          ![p].failed_in = IF ok THEN @ ELSE op]
    /\ UNCHANGED <<settings, runs, skipped>>
    /\ UNCHANGED <<schedvars, call>>

\* The process goes on to the next call, or leaves run_ingestion with the
\* exception of the call that failed.
Proceed(p, op, ok, next) ==
    /\ pc' = [pc EXCEPT ![p] = IF ok THEN next ELSE "idle"]
    /\ job' = [job EXCEPT ![p].result =
                    IF ~ok THEN "failed" ELSE IF next = "idle" THEN "completed" ELSE @,
                          ![p].failed_in = IF ok THEN @ ELSE op]
    /\ UNCHANGED <<settings, runs, skipped>>
    /\ UNCHANGED <<schedvars, call>>

RunSyncHoldings(p) ==
    /\ pc[p] = "sync_holdings"
    /\ \E failAt \in FailPoints(sync_holdings(Tables, seq, clock + 1, job[p].holdings, 0).count) :
         LET r == sync_holdings(Tables, seq, clock + 1, job[p].holdings, failAt)
         IN  /\ Call("sync_holdings", job[p].holdings, r, failAt)
             /\ Proceed(p, "sync_holdings", r.ok, "sync_bulk_deals")
    /\ UNCHANGED tx

RunSyncBulkDeals(p) ==
    /\ pc[p] = "sync_bulk_deals"
    /\ \E failAt \in FailPoints(sync_bulk_deals(Tables, seq, clock + 1, job[p].deals, 0).count) :
         LET r == sync_bulk_deals(Tables, seq, clock + 1, job[p].deals, failAt)
         IN  /\ Call("sync_bulk_deals", job[p].deals, r, failAt)
             /\ Proceed(p, "sync_bulk_deals", r.ok, "sync_block_deals")
    /\ UNCHANGED tx

RunSyncBlockDeals(p) ==
    /\ pc[p] = "sync_block_deals"
    /\ \E failAt \in FailPoints(sync_block_deals(Tables, seq, clock + 1, job[p].deals, 0).count) :
         LET r == sync_block_deals(Tables, seq, clock + 1, job[p].deals, failAt)
         IN  /\ Call("sync_block_deals", job[p].deals, r, failAt)
             /\ Proceed(p, "sync_block_deals", r.ok, "idle")
    /\ UNCHANGED tx

\* One process, the scheduler's job, runs the ingestion.
ScheduledRun == StartRun("scheduler", utils, Responses, MaxRuns)
ScheduledSyncHoldings == RunSyncHoldings("scheduler")
ScheduledSyncBulkDeals == RunSyncBulkDeals("scheduler")
ScheduledSyncBlockDeals == RunSyncBlockDeals("scheduler")

NextRun ==
    \/ ScheduledRun
    \/ ScheduledSyncHoldings
    \/ ScheduledSyncBulkDeals
    \/ ScheduledSyncBlockDeals

SpecRun == InitRun /\ [][NextRun]_vars

\* ------------------------------------------------------------ the triggers
\* The scheduler's job and the command line both enter run_ingestion.  The
\* scheduler holds one job (JOB_ID) added without max_instances, so it runs
\* at most one instance of it and drops a trigger that fires meanwhile;
\* runner.main takes no lock and asks nobody.
TriggerPages ==
    { [holdings |-> [status |-> 200,
                     rows |-> << [ticker |-> "X", percent |-> "12.34%",
                                  shares |-> "1,234", reported |-> "05-01-2024"] >>],
       deals |-> [status |-> 200,
                  rows |-> << [ticker |-> "X", date |-> "05-01-2024", side |-> "buy",
                               quantity |-> "100", price |-> "10.5", kind |-> "bulk"] >>]],
      [holdings |-> [status |-> 503, rows |-> <<>>],
       deals |-> [status |-> 503, rows |-> <<>>]] }

\* The job's trigger fires while no instance of the job is running.
_ingestion_job == StartRun("scheduler", utils, TriggerPages, MaxTriggers)

\* The job's trigger fires while an instance is running: the run is skipped.
SkipTrigger ==
    /\ pc["scheduler"] # "idle"
    /\ runs < MaxTriggers
    /\ skipped < MaxSkipped
    /\ skipped' = skipped + 1
    /\ UNCHANGED <<tables, seq, clock, fails, last, settings, pc, job, runs>>
    /\ UNCHANGED <<schedvars, tx, call>>

\* python -m portfolio_ingest.runner
main == StartRun("cli", utils, TriggerPages, MaxTriggers)

\* ------------------------------------------------------------ _parse_time
\* app._parse_time: the (hour, minute) of "HH:MM", or a ValueError.
_parse_time(text) ==
    LET value == Strip(text)
        NoTime == [raised |-> TRUE, hour |-> 0, minute |-> 0]
    IN  IF value = <<>> \/ \A i \in DOMAIN value : value[i] # ":"
        THEN NoTime
        ELSE
            LET at == CHOOSE i \in DOMAIN value :
                          value[i] = ":" /\ \A j \in 1..(i - 1) : value[j] # ":"
                hour == int(SubSeq(value, 1, at - 1))
                minute == int(SubSeq(value, at + 1, Len(value)))
            IN  IF hour.raised \/ minute.raised THEN NoTime
                ELSE IF ~(0 <= hour.value /\ hour.value <= 23
                          /\ 0 <= minute.value /\ minute.value <= 59)
                THEN NoTime
                ELSE [raised |-> FALSE, hour |-> hour.value, minute |-> minute.value]

\* The texts a form may post as time.
TimeTexts ==
    { <<"0", "9", ":", "3", "0">>, <<"2", "3", ":", "5", "9">>, <<"0", ":", "0">>,
      <<" ", "9", ":", " ", "5", " ">>, <<"\t", "9", ":", "3", "0", "\n">>,
      <<"2", "_", "3", ":", "5", "9">>, <<"2", "_", ":", "5", "9">>,
      <<"2", "4", ":", "0", "0">>, <<"0", "5", ":", "6", "0">>, <<"-", "1", ":", "3", "0">>,
      <<"0", "9", "3", "0">>, <<"a", ":", "b">>, <<"9", ":", "3", ":", "0">>, <<":">>, <<>> }

\* ---------------------------------------------------- the schedule in db.py
DEFAULT_SCHEDULE == [hour |-> 2, minute |-> 0, timezone |-> "UTC"]

ScheduleTables == [ingest_schedule |-> ingest_schedule]

\* An insert of the defaults without ON CONFLICT DO NOTHING that the database
\* would accept next to the row already there.
InsertDefaultSchedule_Plain(rows, now) ==
    rows \cup { [id |-> 1, hour |-> DEFAULT_SCHEDULE.hour,
                 minute |-> DEFAULT_SCHEDULE.minute,
                 timezone |-> DEFAULT_SCHEDULE.timezone,
                 created_at |-> now, updated_at |-> now] }

\* INSERT INTO ingest_schedule (id = 1, ...) ON CONFLICT DO NOTHING
InsertDefaultSchedule(rows, now) ==
    IF \E r \in rows : r.id = 1 THEN rows
    ELSE rows \cup { [id |-> 1, hour |-> DEFAULT_SCHEDULE.hour,
                      minute |-> DEFAULT_SCHEDULE.minute,
                      timezone |-> DEFAULT_SCHEDULE.timezone,
                      created_at |-> now, updated_at |-> now] }

\* db.py 320-344: the body of get_or_create_schedule on a connection.
ScheduleGetBody(cx) ==
    LET c == Execute(cx) IN
    IF c.failed THEN c
    ELSE IF c.t.ingest_schedule # {}
    THEN LET row == CHOOSE r \in c.t.ingest_schedule : TRUE
         IN  [c EXCEPT !.ret = [hour |-> row.hour, minute |-> row.minute,
                                timezone |-> row.timezone]]
    ELSE LET c2 == Execute(c) IN
         IF c2.failed THEN c2
         ELSE [c2 EXCEPT !.t.ingest_schedule = InsertDefaultSchedule(@, c2.now),
                         !.ret = DEFAULT_SCHEDULE]

\* get_or_create_schedule(engine): the table afterwards, whether it returned,
\* and what it returned.
get_or_create_schedule(t, now, failAt) ==
    LET c == ScheduleGetBody(Connect(t, <<>>, now, failAt))
        r == session(t, c)
    IN  [t |-> r.t, ok |-> r.ok, ret |-> c.ret, count |-> r.count]

\* An update that would insert the row and leave an existing one alone.
ScheduleUpsert_InsertOnly(rows, now, hour, minute, timezone) ==
    IF rows # {} THEN rows
    ELSE { [id |-> 1, hour |-> hour, minute |-> minute, timezone |-> timezone,
            created_at |-> now, updated_at |-> now] }

\* INSERT INTO ingest_schedule (id = 1, hour, minute, timezone) ON CONFLICT (id)
\* DO UPDATE SET hour, minute, timezone, updated_at
ScheduleUpsert(rows, now, hour, minute, timezone) ==
    LET hit == { r \in rows : r.id = 1 }
    IN  IF hit = {}
        THEN rows \cup { [id |-> 1, hour |-> hour, minute |-> minute,
                          timezone |-> timezone, created_at |-> now, updated_at |-> now] }
        ELSE (rows \ hit) \cup
                 { [r EXCEPT !.hour = hour, !.minute = minute, !.timezone = timezone,
                             !.updated_at = now] : r \in hit }

\* update_schedule(engine, hour, minute, timezone)
update_schedule(t, now, hour, minute, timezone, failAt) ==
    LET c == Execute(Connect(t, <<>>, now, failAt))
        c2 == IF c.failed THEN c
              ELSE [c EXCEPT !.t.ingest_schedule =
                                 ScheduleUpsert(@, c.now, hour, minute, timezone)]
        r == session(t, c2)
    IN  [t |-> r.t, ok |-> r.ok,
         ret |-> [hour |-> hour, minute |-> minute, timezone |-> timezone],
         count |-> r.count]

\* The timezone parameter of update_schedule: the argument, or the default
\* of the signature when the caller passes none.
TimezoneParameter(given) == IF given = "omitted" THEN "UTC" ELSE given

\* ---------------------------------------------------- the scheduler's job
JOB_ID == "daily-ingestion"

\* CronTrigger(hour, minute, timezone): a ValueError for a value outside the
\* field's range.
CronTrigger(hour, minute, timezone) ==
    IF 0 <= hour /\ hour <= 23 /\ 0 <= minute /\ minute <= 59
    THEN [raised |-> FALSE, hour |-> hour, minute |-> minute, timezone |-> timezone]
    ELSE [raised |-> TRUE, hour |-> hour, minute |-> minute, timezone |-> timezone]

get_job(sch, id) == \E i \in DOMAIN sch.jobs : sch.jobs[i].id = id

\* A reschedule_job that would leave the job's trigger as it is.
reschedule_job_Keep(sch, id, trigger) ==
    sch

reschedule_job(sch, id, trigger) ==
    [sch EXCEPT !.jobs = [i \in DOMAIN @ |->
                            IF @[i].id = id THEN [@[i] EXCEPT !.trigger = trigger]
                            ELSE @[i]]]

\* add_job(..., id, replace_existing=True): a stopped scheduler keeps the job
\* as pending; a running one replaces the job of that id or adds the job.
add_job(sch, id, trigger) ==
    IF sch.running /\ get_job(sch, id)
    THEN reschedule_job(sch, id, trigger)
    ELSE [sch EXCEPT !.jobs = Append(@, [id |-> id, trigger |-> trigger])]

\* scheduler.start(): the pending jobs are added one by one, a later job
\* replacing an earlier one of the same id.
RECURSIVE AddPending(_, _)
AddPending(store, pending) ==
    IF pending = <<>> THEN store
    ELSE AddPending(
            IF \E i \in DOMAIN store : store[i].id = Head(pending).id
            THEN [i \in DOMAIN store |->
                    IF store[i].id = Head(pending).id THEN Head(pending) ELSE store[i]]
            ELSE Append(store, Head(pending)),
            Tail(pending))
start(sch) == [running |-> TRUE, jobs |-> AddPending(<<>>, sch.jobs)]

\* scheduler.shutdown(): the scheduler stops and its job store, which keeps
\* the jobs in memory, lets them go.
shutdown(sch) == [running |-> FALSE, jobs |-> <<>>]

\* A reconfiguration that would add a job whether or not there is one.
_configure_job_AlwaysAdd(sch, schedule) ==
    LET trigger == CronTrigger(schedule.hour, schedule.minute, schedule.timezone)
    IN  IF trigger.raised THEN [raised |-> TRUE, scheduler |-> sch]
        ELSE [raised |-> FALSE,
              scheduler |-> [sch EXCEPT !.jobs =
                                Append(@, [id |-> JOB_ID, trigger |-> trigger])]]

\* app._configure_job(schedule)
_configure_job(sch, schedule) ==
    LET trigger == CronTrigger(schedule.hour, schedule.minute, schedule.timezone)
    IN  IF trigger.raised THEN [raised |-> TRUE, scheduler |-> sch]
        ELSE IF get_job(sch, JOB_ID)
        THEN [raised |-> FALSE, scheduler |-> reschedule_job(sch, JOB_ID, trigger)]
        ELSE [raised |-> FALSE, scheduler |-> add_job(sch, JOB_ID, trigger)]

\* ------------------------------------------------ the schedule operations
\* A schedule operation ended: the table it left, whether it returned
\* normally, whether a statement raised in it, whether update_schedule
\* committed in it, the arguments update_schedule was given and what was read
\* or returned (sets of at most one element).
Answer(op, t, ok, raised, updated, given, ret) ==
    /\ ingest_schedule' = t.ingest_schedule
    /\ clock' = clock + 1
    /\ fails' = IF raised THEN fails + 1 ELSE fails
    /\ web' = [op |-> op, ok |-> ok, updated |-> updated, given |-> given, ret |-> ret,
               before |-> ingest_schedule]
    /\ UNCHANGED <<tables, seq, last, runvars, tx, call>>

\* app.startup_event
startup_event ==
    /\ clock < MaxScheduleOps
    /\ \E failAt \in FailPoints(get_or_create_schedule(ScheduleTables, clock + 1, 0).count) :
         LET g == get_or_create_schedule(ScheduleTables, clock + 1, failAt)
             cfg == _configure_job(scheduler, g.ret)
         IN  IF ~g.ok
             THEN /\ Answer("startup", g.t, FALSE, TRUE, FALSE, {}, {})
                  /\ UNCHANGED scheduler
             ELSE IF cfg.raised
             THEN /\ Answer("startup", g.t, FALSE, FALSE, FALSE, {}, {g.ret})
                  /\ UNCHANGED scheduler
             ELSE /\ Answer("startup", g.t, TRUE, FALSE, FALSE, {}, {g.ret})
                  /\ scheduler' = IF cfg.scheduler.running THEN cfg.scheduler
                                  ELSE start(cfg.scheduler)

\* app.shutdown_event: the application stops serving.  With a scheduler that
\* is not running the handler does nothing.
shutdown_event ==
    /\ scheduler.running
    /\ scheduler' = shutdown(scheduler)
    /\ web' = [NoRequest EXCEPT !.op = "shutdown", !.before = ingest_schedule]
    /\ UNCHANGED <<tables, seq, clock, fails, last, runvars, ingest_schedule, tx, call>>

\* app.show_schedule (GET /schedule); app.dashboard reads the schedule the
\* same way.
show_schedule ==
    /\ clock < MaxScheduleOps
    /\ \E failAt \in FailPoints(get_or_create_schedule(ScheduleTables, clock + 1, 0).count) :
         LET g == get_or_create_schedule(ScheduleTables, clock + 1, failAt)
         IN  /\ Answer("get", g.t, g.ok, ~g.ok, FALSE, {}, IF g.ok THEN {g.ret} ELSE {})
             /\ UNCHANGED scheduler

\* app.update_schedule_view (POST /schedule) with the form field time.
update_schedule_view ==
    /\ clock < MaxScheduleOps
    /\ \E time \in TimeTexts :
         LET parsed == _parse_time(time)
         IN  IF parsed.raised
             THEN \E failAt \in FailPoints(
                                  get_or_create_schedule(ScheduleTables, clock + 1, 0).count) :
                    LET g == get_or_create_schedule(ScheduleTables, clock + 1, failAt)
                    IN  /\ Answer("post", g.t, FALSE, ~g.ok, FALSE, {},
                                  IF g.ok THEN {g.ret} ELSE {})
                        /\ UNCHANGED scheduler
             ELSE \E failAt \in FailPoints(
                                  update_schedule(ScheduleTables, clock + 1, parsed.hour,
                                                  parsed.minute, "UTC", 0).count) :
                    LET given == [hour |-> parsed.hour, minute |-> parsed.minute,
                                  timezone |-> "omitted"]
                        u == update_schedule(ScheduleTables, clock + 1, parsed.hour,
                                             parsed.minute, TimezoneParameter("omitted"),
                                             failAt)
                        cfg == _configure_job(scheduler, u.ret)
                    IN  IF ~u.ok
                        THEN /\ Answer("post", u.t, FALSE, TRUE, FALSE, {given}, {})
                             /\ UNCHANGED scheduler
                        ELSE /\ Answer("post", u.t, ~cfg.raised, FALSE, TRUE, {given}, {u.ret})
                             /\ scheduler' = cfg.scheduler

\* The values a caller may hand to db.update_schedule.
Hours == {0 - 1, 9, 23, 24}
Minutes == {0, 30, 60}
TimezoneArguments == {"omitted", "UTC", "Asia/Kolkata"}

\* A call of db.update_schedule(engine, hour, minute[, timezone]).
UpdateSchedule ==
    /\ clock < MaxScheduleOps
    /\ \E hour \in Hours, minute \in Minutes, timezone \in TimezoneArguments :
         \E failAt \in FailPoints(update_schedule(ScheduleTables, clock + 1, hour, minute,
                                                  "UTC", 0).count) :
            LET given == [hour |-> hour, minute |-> minute, timezone |-> timezone]
                u == update_schedule(ScheduleTables, clock + 1, hour, minute,
                                     TimezoneParameter(timezone), failAt)
            IN  /\ Answer("update_schedule", u.t, u.ok, ~u.ok, u.ok, {given},
                          IF u.ok THEN {u.ret} ELSE {})
                /\ UNCHANGED scheduler

NextSchedule ==
    \/ startup_event
    \/ shutdown_event
    \/ show_schedule
    \/ update_schedule_view
    \/ UpdateSchedule

SpecSchedule == Init /\ [][NextSchedule]_vars

\* ------------------------------------------- the running scheduler's job
\* After startup_event the scheduler runs with the job JOB_ID in its store.
\* At every instant of the job's CronTrigger the scheduler submits
\* _ingestion_job, unless an instance of the job is still running.
Registered == scheduler.running /\ get_job(scheduler, JOB_ID)

TriggerFires ==
    /\ Registered
    /\ _ingestion_job

TriggerSkipped ==
    /\ Registered
    /\ SkipTrigger

NextFire ==
    \/ startup_event
    \/ shutdown_event
    \/ TriggerFires
    \/ TriggerSkipped
    \/ ScheduledSyncHoldings
    \/ ScheduledSyncBulkDeals
    \/ ScheduledSyncBlockDeals

\* The instants of the trigger keep coming: while the job stays registered
\* and no instance of it is running, the scheduler submits it.
FairFire == WF_vars(TriggerFires)

SpecFire == Init /\ [][NextFire]_vars /\ FairFire

\* ------------------------------------- concurrent get_or_create_schedule calls
\* Each caller runs get_or_create_schedule in its own transaction (READ
\* COMMITTED): every statement sees the rows committed so far.  An INSERT ... ON
\* CONFLICT DO NOTHING whose key another open transaction has inserted waits
\* until that transaction ends.
MaxSeedFails == 1  \* sessions of SpecSeed that a database error ends

\* A schedule another administrator stored before the callers arrive.
StoredSchedule ==
    [id |-> 1, hour |-> 9, minute |-> 30, timezone |-> "Asia/Kolkata",
     created_at |-> 0, updated_at |-> 0]

\* The key id = 1 is held by an insert of another open transaction.
SeedBlocked(p) == \E q \in Sessions \ {p} : tx[q].wrote # {}

\* db.py 320-328: the session opens, SELECT ... first(); a row is returned as
\* the schedule.
SeedSelect(p) ==
    /\ tx[p].at = "idle"
    /\ clock' = clock + 1
    /\ tx' = [tx EXCEPT ![p] =
                IF ingest_schedule # {}
                THEN LET row == CHOOSE r \in ingest_schedule : TRUE
                     IN  [@ EXCEPT !.at = "exit", !.now = clock + 1,
                                   !.saw = ingest_schedule,
                                   !.ret = {[hour |-> row.hour, minute |-> row.minute,
                                             timezone |-> row.timezone]}]
                ELSE [@ EXCEPT !.at = "insert", !.now = clock + 1]]
    /\ UNCHANGED <<tables, seq, fails, last, runvars, schedvars, call>>

\* db.py 330-344: the insert of the defaults, and the return of their copy.
SeedInsert(p) ==
    /\ tx[p].at = "insert"
    /\ ~SeedBlocked(p)
    /\ tx' = [tx EXCEPT ![p] =
                [@ EXCEPT !.at = "exit",
                          !.wrote = InsertDefaultSchedule(ingest_schedule, tx[p].now)
                                       \ ingest_schedule,
                          !.ret = {DEFAULT_SCHEDULE}]]
    /\ UNCHANGED <<tables, seq, clock, fails, last, runvars, schedvars, call>>

\* db.py 132-137: the with block of session ends normally, engine.begin commits.
SeedCommit(p) ==
    /\ tx[p].at = "exit"
    /\ ingest_schedule' = ingest_schedule \cup tx[p].wrote
    /\ tx' = [tx EXCEPT ![p] = [@ EXCEPT !.at = "done", !.wrote = {}]]
    /\ UNCHANGED <<tables, seq, clock, fails, last, runvars, scheduler, web, call>>

\* db.py 132-137: a statement raises (the database is gone), engine.begin rolls
\* the transaction back and the call raises.
SeedRaise(p) ==
    /\ tx[p].at \in {"insert", "exit"}
    /\ fails < MaxSeedFails
    /\ fails' = fails + 1
    /\ tx' = [tx EXCEPT ![p] = [@ EXCEPT !.at = "raised", !.wrote = {}, !.ret = {}]]
    /\ UNCHANGED <<tables, seq, clock, last, runvars, schedvars, call>>

\* Init of SpecSeed: the table is empty, or holds the schedule stored earlier.
InitSeed ==
    /\ ingest_schedule \in {{}, {StoredSchedule}}
    /\ tx = [p \in Sessions |-> NoSession]
    /\ call = NoCall
    /\ investors = {}
    /\ stocks = {}
    /\ holdings = {}
    /\ bulk_deals = {}
    /\ block_deals = {}
    /\ seq = [investors |-> 0, stocks |-> 0, holdings |-> 0, bulk_deals |-> 0, block_deals |-> 0]
    /\ clock = 0
    /\ scheduler = [running |-> FALSE, jobs |-> <<>>]
    /\ web = NoRequest
    /\ settings = InvestorSources
    /\ pc = [p \in Procs |-> "idle"]
    /\ job = [p \in Procs |-> NoJob]
    /\ runs = 0
    /\ skipped = 0
    /\ fails = 0
    /\ last = [op |-> "none", ok |-> TRUE, batch |-> <<>>, failAt |-> 0,
               removed |-> 0, again |-> FALSE]

SeedSelects == \E p \in Sessions : SeedSelect(p)
SeedInserts == \E p \in Sessions : SeedInsert(p)
SeedCommits == \E p \in Sessions : SeedCommit(p)
SeedRaises == \E p \in Sessions : SeedRaise(p)

NextSeed == SeedSelects \/ SeedInserts \/ SeedCommits \/ SeedRaises

SpecSeed == InitSeed /\ [][NextSeed]_vars

\* -------------------------- get_or_create_schedule beside update_schedule
\* Two callers of get_or_create_schedule and one of update_schedule, each in
\* its own transaction.  INSERT ... ON CONFLICT (id) DO UPDATE waits, like the
\* seeding insert, while another open transaction has written the key id = 1.
Getters == {"s1", "s2"}
Updater == "s3"

\* The schedules update_schedule is called with.
UpdateArguments ==
    { [hour |-> 23, minute |-> 0, timezone |-> "UTC"], DEFAULT_SCHEDULE }

\* db.py 356-372: the session opens and the upsert is executed.
UpdateUpsert ==
    /\ tx[Updater].at = "idle"
    /\ ~SeedBlocked(Updater)
    /\ clock' = clock + 1
    /\ \E given \in UpdateArguments :
         tx' = [tx EXCEPT ![Updater] =
                  [@ EXCEPT !.at = "exit", !.now = clock + 1, !.saw = ingest_schedule,
                            !.wrote = ScheduleUpsert(ingest_schedule, clock + 1, given.hour,
                                                     given.minute, given.timezone),
                            !.ret = {given}]]
    /\ UNCHANGED <<tables, seq, fails, last, runvars, schedvars, call>>

\* db.py 132-137, 374: the with block ends, engine.begin commits, and
\* update_schedule returns the schedule it was given.
UpdateCommit ==
    /\ tx[Updater].at = "exit"
    /\ ingest_schedule' = tx[Updater].wrote
    /\ tx' = [tx EXCEPT ![Updater] = [@ EXCEPT !.at = "done", !.wrote = {}]]
    /\ UNCHANGED <<tables, seq, clock, fails, last, runvars, scheduler, web, call>>

\* db.py 132-137: the commit fails, the transaction is rolled back and
\* update_schedule raises.
UpdateRaise ==
    /\ tx[Updater].at = "exit"
    /\ fails < MaxSeedFails
    /\ fails' = fails + 1
    /\ tx' = [tx EXCEPT ![Updater] = [@ EXCEPT !.at = "raised", !.wrote = {}, !.ret = {}]]
    /\ UNCHANGED <<tables, seq, clock, last, runvars, schedvars, call>>

GetSelects == \E p \in Getters : SeedSelect(p)
GetInserts == \E p \in Getters : SeedInsert(p)
GetCommits == \E p \in Getters : SeedCommit(p)
GetRaises == \E p \in Getters : SeedRaise(p)

NextGetUpdate ==
    \/ GetSelects
    \/ GetInserts
    \/ GetCommits
    \/ GetRaises
    \/ UpdateUpsert
    \/ UpdateCommit
    \/ UpdateRaise

SpecGetUpdate == InitSeed /\ [][NextGetUpdate]_vars

\* ------------------------------------------ overlapping sync_holdings calls
\* Two callers run sync_holdings at the same time, each in the transaction of
\* its own session (engine.begin(); PostgreSQL's default READ COMMITTED, no
\* LOCK TABLE, no advisory lock).  A statement sees the rows committed so far
\* and the rows its own transaction wrote; a write to a row, or an insert of
\* a unique key, that another open transaction has written waits until that
\* transaction ends.  Sequences are not transactional: an INSERT takes the
\* next value when it forms its row, before it looks for the key.
MaxOverlapBatch == 1  \* records in a batch of an overlapping call

Writers == {"s1", "s2"}

OverlapRecords ==
    { Holding(i, k, "https://www.screener.in/a",
              [percent_holding |-> "5.0", shares |-> None, reported_date |-> None]) :
        i \in InvestorNames, k \in TickerNames }

OverlapBatches == SeqsUpTo(OverlapRecords, MaxOverlapBatch)

NoRows == EmptyTables

\* A caller that has not called sync_holdings or _sync_deals.  An open
\* session holds the table it reconciles, the batch, its place in the loops,
\* the rows its transaction wrote (mine) and the ids of the rows of the table
\* that it deleted (gone); while a statement of it waits, the sequence value
\* its INSERT took (taken), or the row its DELETE is at (reached) with the
\* rows of to_remove it has not dealt with (left).
NoWrite ==
    [at |-> "idle", table |-> "none", now |-> 0, batch |-> <<>>, i |-> 1, investor_id |-> 0,
     grouped |-> <<>>, j |-> 1, to_remove |-> {}, mine |-> NoRows, gone |-> {},
     taken |-> 0, reached |-> 0, left |-> {}]

\* The database before the calls: the fresh schema, or what an earlier
\* sync_holdings of (A, X) and (B, Y) left.
OverlapDatabases ==
    { sync_holdings(EmptyTables,
                    [investors |-> 0, stocks |-> 0, holdings |-> 0, bulk_deals |-> 0,
                     block_deals |-> 0],
                    0, b, 0) :
        b \in { <<>>,
                << Holding("A", "X", "https://www.screener.in/a",
                           [percent_holding |-> "12.34", shares |-> "1234",
                            reported_date |-> "2024-01-05"]),
                   Holding("B", "Y", "https://www.screener.in/a",
                           [percent_holding |-> "5.0", shares |-> None,
                            reported_date |-> None]) >> } }

InitOverlap ==
    /\ \E db \in OverlapDatabases :
         /\ investors = db.t.investors
         /\ stocks = db.t.stocks
         /\ holdings = db.t.holdings
         /\ seq = db.sq
    /\ bulk_deals = {}
    /\ block_deals = {}
    /\ clock = 0
    /\ tx = [p \in Writers |-> NoWrite]
    /\ call = NoCall
    /\ ingest_schedule = {}
    /\ scheduler = [running |-> FALSE, jobs |-> <<>>]
    /\ web = NoRequest
    /\ settings = InvestorSources
    /\ pc = [p \in Procs |-> "idle"]
    /\ job = [p \in Procs |-> NoJob]
    /\ runs = 0
    /\ skipped = 0
    /\ fails = 0
    /\ last = [op |-> "none", ok |-> TRUE, batch |-> <<>>, failAt |-> 0,
               removed |-> 0, again |-> FALSE]

Ids(rows) == { r.id : r \in rows }

\* The rows of a table as a statement of p's transaction sees them.
Seen(committed, written, deleted) ==
    { r \in committed : r.id \notin Ids(written) /\ r.id \notin deleted } \cup written

View(p) ==
    [k \in DOMAIN Tables |->
        Seen(Tables[k], tx[p].mine[k], IF k = tx[p].table THEN tx[p].gone ELSE {})]

\* The rows p's transaction has written, given the tables its last statement left.
Written(t) == [k \in DOMAIN Tables |-> t[k] \ Tables[k]]

\* The key of the unique constraint of holdings, and of bulk_deals and
\* block_deals: of a row, and of a record with its investor and stock ids.
KeyOf(table, r) ==
    IF table = "holdings" THEN <<r.investor_id, r.stock_id>>
    ELSE <<r.investor_id, r.stock_id, r.deal_date>>
GroupKey(table, investor_id, stock_id, rec) ==
    IF table = "holdings" THEN <<investor_id, stock_id>>
    ELSE <<investor_id, stock_id, rec.deal_date>>

\* The rows of table that q's open transaction has deleted.
Gone(q, table) == IF tx[q].table = table THEN tx[q].gone ELSE {}

\* The open transactions that hold what the statement p is at writes: the
\* key of its INSERT, or the row its DELETE has reached.
Blockers(p) ==
    { q \in DOMAIN tx \ {p} :
        CASE tx[p].at = "investor" ->
               \E r \in tx[q].mine.investors : r.name = tx[p].batch[tx[p].i].investor
          [] tx[p].at = "stock" ->
               \E r \in tx[q].mine.stocks : r.ticker = tx[p].batch[tx[p].i].ticker
          [] tx[p].at = "upsert" ->
               LET key == tx[p].grouped[tx[p].j].key IN
               \/ \E r \in tx[q].mine[tx[p].table] : KeyOf(tx[p].table, r) = key
               \/ \E r \in Tables[tx[p].table] :
                     KeyOf(tx[p].table, r) = key /\ r.id \in Gone(q, tx[p].table)
          [] tx[p].at = "delete" ->
               tx[p].reached \in Ids(tx[q].mine[tx[p].table]) \cup Gone(q, tx[p].table)
          [] OTHER -> FALSE }

\* The open transactions a statement of p, sent to the server, waits for.
WaitsFor(p) == IF tx[p].taken # 0 \/ tx[p].reached # 0 THEN Blockers(p) ELSE {}

\* The table of the INSERT p is at.
InsertInto(p) ==
    CASE tx[p].at = "investor" -> "investors"
      [] tx[p].at = "stock" -> "stocks"
      [] tx[p].at = "upsert" -> tx[p].table

\* The sequences as the INSERT of p finds them, and as it leaves them: an
\* INSERT that waited has taken its value before.
SequencesOf(p) ==
    IF tx[p].taken = 0 THEN seq ELSE [seq EXCEPT ![InsertInto(p)] = tx[p].taken - 1]
SequencesAfter(p, sq) == IF tx[p].taken = 0 THEN sq ELSE seq

\* db.py 169-170: sync_holdings is called with a batch and opens its session.
OverlapBegin(p) ==
    /\ tx[p].at = "idle"
    /\ \E batch \in OverlapBatches :
         tx' = [tx EXCEPT ![p] =
                  [@ EXCEPT !.at = IF batch = <<>> THEN "select" ELSE "investor",
                            !.table = "holdings", !.now = clock + 1, !.batch = batch]]
    /\ clock' = clock + 1
    /\ UNCHANGED <<tables, seq, fails, last, runvars, schedvars, call>>

\* An INSERT ... ON CONFLICT whose key another open transaction holds: the
\* row is formed, with the next value of the table's sequence, and the
\* statement waits for that transaction to end.
OverlapInsertWaits(p) ==
    /\ tx[p].at \in {"investor", "stock", "upsert"}
    /\ tx[p].taken = 0
    /\ Blockers(p) # {}
    /\ seq' = [seq EXCEPT ![InsertInto(p)] = @ + 1]
    /\ tx' = [tx EXCEPT ![p].taken = seq[InsertInto(p)] + 1]
    /\ UNCHANGED <<tables, clock, fails, last, runvars, schedvars, call>>

\* db.py 172, 213: investor_id = _upsert_investor(conn, ...)
OverlapUpsertInvestor(p) ==
    /\ tx[p].at = "investor"
    /\ Blockers(p) = {}
    /\ LET holding == tx[p].batch[tx[p].i]
           c == _upsert_investor(Connect(View(p), SequencesOf(p), tx[p].now, 0),
                                 holding.investor, holding.source_url)
       IN  /\ tx' = [tx EXCEPT ![p] =
                       [@ EXCEPT !.at = "stock", !.investor_id = c.ret,
                                 !.mine = Written(c.t), !.taken = 0]]
           /\ seq' = SequencesAfter(p, c.sq)
    /\ UNCHANGED <<tables, clock, fails, last, runvars, schedvars, call>>

\* db.py 174-175, 215-216: key = (investor_id, stock_id, ...); grouped[key] =
\* holding, or deal: the session of p with the record i grouped.
Group(p, stock_id) ==
    [tx[p] EXCEPT !.at = IF tx[p].i = Len(tx[p].batch) THEN "upsert" ELSE "investor",
                  !.i = @ + 1,
                  !.grouped = DictSet(@, GroupKey(tx[p].table, tx[p].investor_id, stock_id,
                                                  tx[p].batch[tx[p].i]),
                                      tx[p].batch[tx[p].i]),
                  !.taken = 0]

\* db.py 157-159: the INSERT of _upsert_stock; with no row returned the
\* SELECT follows.
OverlapUpsertStock(p) ==
    /\ tx[p].at = "stock"
    /\ Blockers(p) = {}
    /\ LET c == InsertStock(Connect(View(p), SequencesOf(p), tx[p].now, 0),
                            tx[p].batch[tx[p].i].ticker)
       IN  /\ tx' = [tx EXCEPT ![p] =
                       IF c.ret = 0 THEN [@ EXCEPT !.at = "stock_select", !.taken = 0]
                       ELSE [Group(p, c.ret) EXCEPT !.mine = Written(c.t)]]
           /\ seq' = SequencesAfter(p, c.sq)
    /\ UNCHANGED <<tables, clock, fails, last, runvars, schedvars, call>>

\* db.py 162-163: the SELECT of _upsert_stock
OverlapSelectStock(p) ==
    /\ tx[p].at = "stock_select"
    /\ LET c == SelectStock(Connect(View(p), seq, tx[p].now, 0), tx[p].batch[tx[p].i].ticker)
       IN  tx' = [tx EXCEPT ![p] = Group(p, c.ret)]
    /\ UNCHANGED <<tables, seq, clock, fails, last, runvars, schedvars, call>>

\* db.py 177-194, 218-234: the upsert of one item of grouped
OverlapUpsertRow(p) ==
    /\ tx[p].at = "upsert"
    /\ Blockers(p) = {}
    /\ LET item == tx[p].grouped[tx[p].j]
           cx == Connect(View(p), SequencesOf(p), tx[p].now, 0)
           c == IF tx[p].table = "holdings"
                THEN HoldingsUpsertRow(cx, item.key, item.rec)
                ELSE DealsUpsertRow(cx, tx[p].table, item.key, item.rec)
       IN  /\ tx' = [tx EXCEPT ![p] =
                       [@ EXCEPT !.at = IF tx[p].j = Len(tx[p].grouped) THEN "select"
                                        ELSE "upsert",
                                 !.j = @ + 1,
                                 !.mine = Written(c.t), !.taken = 0]]
           /\ seq' = SequencesAfter(p, c.sq)
    /\ UNCHANGED <<tables, clock, fails, last, runvars, schedvars, call>>

\* db.py 196-199, 236-243: existing = conn.execute(select ...).all(); to_remove
OverlapSelectExisting(p) ==
    /\ tx[p].at = "select"
    /\ LET to_keep == DictKeys(tx[p].grouped)
           to_remove == { row.id : row \in
                            { r \in View(p)[tx[p].table] :
                                KeyOf(tx[p].table, r) \notin to_keep } }
       IN  tx' = [tx EXCEPT ![p] =
                    [@ EXCEPT !.at = IF to_remove = {} THEN "exit" ELSE "delete",
                              !.to_remove = to_remove, !.left = to_remove]]
    /\ UNCHANGED <<tables, seq, clock, fails, last, runvars, schedvars, call>>

\* db.py 200-201, 244-245: delete(table).where(table.c.id.in_(to_remove)).  The
\* statement takes the rows in the order its plan reaches them.  At a row
\* that another open transaction has written or deleted it waits, holding the
\* rows it has deleted; a row another transaction deleted meanwhile is no
\* longer there to delete.
OverlapDelete(p) ==
    /\ tx[p].at = "delete"
    /\ \E id \in tx[p].left :
         IF \E q \in DOMAIN tx \ {p} :
                id \in Ids(tx[q].mine[tx[p].table]) \cup Gone(q, tx[p].table)
         THEN /\ tx[p].reached = 0
              /\ tx' = [tx EXCEPT ![p].reached = id]
         ELSE /\ tx[p].reached \in {0, id}
              /\ tx' = [tx EXCEPT ![p] =
                          [@ EXCEPT !.at = IF tx[p].left = {id} THEN "exit" ELSE "delete",
                                    !.reached = 0,
                                    !.left = @ \ {id},
                                    !.gone = @ \cup ({id} \cap Ids(Tables[tx[p].table])),
                                    !.mine[tx[p].table] = { r \in @ : r.id # id }]]
    /\ UNCHANGED <<tables, seq, clock, fails, last, runvars, schedvars, call>>

\* db.py 132-137: the with block ends and engine.begin commits.
OverlapCommit(p) ==
    /\ tx[p].at = "exit"
    /\ investors' = View(p).investors
    /\ stocks' = View(p).stocks
    /\ holdings' = View(p).holdings
    /\ tx' = [tx EXCEPT ![p] = [@ EXCEPT !.at = "done", !.mine = NoRows, !.gone = {}]]
    /\ UNCHANGED <<bulk_deals, block_deals, seq, clock, fails, last, runvars, schedvars, call>>

\* Two transactions wait for each other: the database ends one of them with
\* an error, engine.begin rolls it back and sync_holdings raises.
OverlapDeadlock(p) ==
    /\ \E q \in WaitsFor(p) : p \in WaitsFor(q)
    /\ tx' = [tx EXCEPT ![p] = [@ EXCEPT !.at = "raised", !.mine = NoRows, !.gone = {},
                                        !.taken = 0, !.reached = 0, !.left = {}]]
    /\ fails' = fails + 1
    /\ UNCHANGED <<tables, seq, clock, last, runvars, schedvars, call>>

NextOverlap ==
    \/ \E p \in Writers : OverlapBegin(p)
    \/ \E p \in Writers : OverlapInsertWaits(p)
    \/ \E p \in Writers : OverlapUpsertInvestor(p)
    \/ \E p \in Writers : OverlapUpsertStock(p)
    \/ \E p \in Writers : OverlapSelectStock(p)
    \/ \E p \in Writers : OverlapUpsertRow(p)
    \/ \E p \in Writers : OverlapSelectExisting(p)
    \/ \E p \in Writers : OverlapDelete(p)
    \/ \E p \in Writers : OverlapCommit(p)
    \/ \E p \in Writers : OverlapDeadlock(p)

SpecOverlap == InitOverlap /\ [][NextOverlap]_vars

\* ------------------------------------- the triggers, statement by statement
\* The scheduler's job and the command line are two processes with one
\* database.  Each reconciliation call of a run is a session of its own
\* (runner.py 44-46), and its statements are round trips to the server, so
\* the statements of the other process's call fall in between them.
InRun(p) == pc[p] \in {"sync_holdings", "sync_bulk_deals", "sync_block_deals"}

\* The records, the table and the follower of the call a run is at.
CallBatch(p) ==
    CASE pc[p] = "sync_holdings" -> job[p].holdings
      [] pc[p] = "sync_bulk_deals" -> DealFilter(job[p].deals, "bulk")
      [] pc[p] = "sync_block_deals" -> DealFilter(job[p].deals, "block")
CallTable(p) ==
    CASE pc[p] = "sync_holdings" -> "holdings"
      [] pc[p] = "sync_bulk_deals" -> "bulk_deals"
      [] pc[p] = "sync_block_deals" -> "block_deals"
CallAfter(p) ==
    CASE pc[p] = "sync_holdings" -> "sync_bulk_deals"
      [] pc[p] = "sync_bulk_deals" -> "sync_block_deals"
      [] pc[p] = "sync_block_deals" -> "idle"

\* db.py 169-170, 210-211: the call opens its session.
RunBegin(p) ==
    /\ InRun(p)
    /\ tx[p].at = "idle"
    /\ tx' = [tx EXCEPT ![p] =
                [NoWrite EXCEPT !.at = IF CallBatch(p) = <<>> THEN "select" ELSE "investor",
                                !.table = CallTable(p), !.now = clock + 1,
                                !.batch = CallBatch(p)]]
    /\ clock' = clock + 1
    /\ UNCHANGED <<tables, seq, fails, last, runvars, schedvars, call>>

\* db.py 132-137: the with block ends, engine.begin commits, the call returns
\* and run_ingestion goes on.
RunCommit(p) ==
    /\ InRun(p)
    /\ tx[p].at = "exit"
    /\ investors' = View(p).investors
    /\ stocks' = View(p).stocks
    /\ holdings' = View(p).holdings
    /\ bulk_deals' = View(p).bulk_deals
    /\ block_deals' = View(p).block_deals
    /\ tx' = [tx EXCEPT ![p] = NoWrite]
    /\ Proceed(p, pc[p], TRUE, CallAfter(p))
    /\ UNCHANGED <<seq, clock, fails, last>>

\* The session ends with an error: engine.begin rolls back, the call raises
\* and the exception leaves run_ingestion.
RunRollback(p) ==
    /\ tx' = [tx EXCEPT ![p] = NoWrite]
    /\ fails' = fails + 1
    /\ Proceed(p, pc[p], FALSE, CallAfter(p))
    /\ UNCHANGED <<tables, seq, clock, last>>

\* Two transactions wait for each other and the database ends one of them.
RunDeadlock(p) ==
    /\ InRun(p)
    /\ \E q \in WaitsFor(p) : p \in WaitsFor(q)
    /\ RunRollback(p)

\* A statement of the session, or its COMMIT, raises.
RunRaise(p) ==
    /\ InRun(p)
    /\ tx[p].at # "idle"
    /\ fails < MaxFails
    /\ RunRollback(p)

InitTrigger ==
    /\ \E db \in Databases :
         /\ investors = db.t.investors
         /\ stocks = db.t.stocks
         /\ holdings = db.t.holdings
         /\ bulk_deals = db.t.bulk_deals
         /\ block_deals = db.t.block_deals
         /\ seq = db.sq
         /\ clock = db.clock
    /\ tx = [p \in Procs |-> NoWrite]
    /\ call = NoCall
    /\ ingest_schedule = {}
    /\ scheduler = [running |-> FALSE, jobs |-> <<>>]
    /\ web = NoRequest
    /\ settings = InvestorSources
    /\ pc = [p \in Procs |-> "idle"]
    /\ job = [p \in Procs |-> NoJob]
    /\ runs = 0
    /\ skipped = 0
    /\ fails = 0
    /\ last = [op |-> "none", ok |-> TRUE, batch |-> <<>>, failAt |-> 0,
               removed |-> 0, again |-> FALSE]

NextTrigger ==
    \/ _ingestion_job
    \/ SkipTrigger
    \/ main
    \/ \E p \in Procs : RunBegin(p)
    \/ \E p \in Procs : OverlapInsertWaits(p)
    \/ \E p \in Procs : OverlapUpsertInvestor(p)
    \/ \E p \in Procs : OverlapUpsertStock(p)
    \/ \E p \in Procs : OverlapSelectStock(p)
    \/ \E p \in Procs : OverlapUpsertRow(p)
    \/ \E p \in Procs : OverlapSelectExisting(p)
    \/ \E p \in Procs : OverlapDelete(p)
    \/ \E p \in Procs : RunCommit(p)
    \/ \E p \in Procs : RunDeadlock(p)
    \/ \E p \in Procs : RunRaise(p)

SpecTrigger == InitTrigger /\ [][NextTrigger]_vars

\* ------------------------------------------------- runs of a configuration
\* run_ingestion under the configurations INVESTOR_SOURCES may hold: up to
\* MaxInvestors investors, each with a location of one of the two sites or of
\* another host.
ConfiguredNames == <<"A", "B", "C", "D">>
ConfiguredLocations ==
    {"https://www.screener.in/a", "https://trendlyne.com/a", "https://example.com/a"}

Configurations ==
    UNION { { [i \in 1..n |-> [investor |-> ConfiguredNames[i], url |-> urls[i]]] :
                urls \in [1..n -> ConfiguredLocations] } : n \in 1..MaxInvestors }

InitConfigured ==
    /\ settings \in Configurations
    /\ \E db \in Databases :
         /\ investors = db.t.investors
         /\ stocks = db.t.stocks
         /\ holdings = db.t.holdings
         /\ bulk_deals = db.t.bulk_deals
         /\ block_deals = db.t.block_deals
         /\ seq = db.sq
         /\ clock = db.clock
    /\ tx = [p \in Sessions |-> NoSession]
    /\ call = NoCall
    /\ ingest_schedule = {}
    /\ scheduler = [running |-> FALSE, jobs |-> <<>>]
    /\ web = NoRequest
    /\ pc = [p \in Procs |-> "idle"]
    /\ job = [p \in Procs |-> NoJob]
    /\ runs = 0
    /\ skipped = 0
    /\ fails = 0
    /\ last = [op |-> "none", ok |-> TRUE, batch |-> <<>>, failAt |-> 0,
               removed |-> 0, again |-> FALSE]

\* python -m portfolio_ingest.runner, once.
ConfiguredRun == StartRun("cli", utils, TriggerPages, MaxRuns)
ConfiguredSyncHoldings == RunSyncHoldings("cli")
ConfiguredSyncBulkDeals == RunSyncBulkDeals("cli")
ConfiguredSyncBlockDeals == RunSyncBlockDeals("cli")

NextConfigured ==
    \/ ConfiguredRun
    \/ ConfiguredSyncHoldings
    \/ ConfiguredSyncBulkDeals
    \/ ConfiguredSyncBlockDeals

SpecConfigured == InitConfigured /\ [][NextConfigured]_vars

\* ------------------------------------------- the adapter functions, alone
\* One call of one function of the sources package: Init draws the function
\* and its argument, the action of the function applies it.

\* The characters the number cells are drawn from: digits, the dot, the
\* percent sign, the thousands separator, the blank, the tab, the underscore,
\* the sign and a letter.
NumberAlphabet == {"0", "1", "2", ".", "%", ",", " ", "\t", "_", "-", "a"}

\* The cells of the pages, and None for a cell that is missing.
CellTexts == {Absent, Text("12.34%"), Text("1,234"), Text("10.5"), Text("99.0")}

\* A cell of one digit more than int() converts.
LongNumber == [i \in 1..(int_max_str_digits + 1) |-> "1"]

\* The numbers a date cell is written with, and the date cells: a day, a
\* month and a year in any order, the empty cell, "n/a" and None.
DateFields ==
    { <<"1">>, <<"0", "5">>, <<"0", "1">>, <<"1", "2">>, <<"1", "3">>, <<"3", "1">>,
      <<"2", "0", "2", "4">>, <<"0", "2", "4">> }

DateTexts ==
    { a \o <<sep>> \o b \o <<sep>> \o c :
        a \in DateFields, b \in DateFields, c \in DateFields,
        sep \in DateSeparators }

DateArguments ==
    { t \in DateTexts : NumericDate(t) } \cup {Absent, <<>>, Text("n/a")}

\* The pieces a location is put together from.
UrlPieces ==
    { <<"h", "t", "t", "p", "s", ":", "/", "/">>, <<"w", "w", "w", ".">>,
      Text("screener.in"), Text("trendlyne.com"),
      <<"s", "c", "r", "e", "e", "n", "e", "r">>, <<".", "i", "n">>,
      <<"S", "c", "r", "e", "e", "n", "e", "r", ".", "i", "n">>,
      <<"e", "x", "a", "m", "p", "l", "e", ".", "c", "o", "m">>, <<"/", "a">> }

RECURSIVE Joined(_)
Joined(pieces) == IF pieces = <<>> THEN <<>> ELSE Head(pieces) \o Joined(Tail(pieces))

UrlTexts == { Joined(pieces) : pieces \in SeqsUpTo(UrlPieces, MaxPieces) }

Called(fn, arg) == [fn |-> fn, arg |-> arg, at |-> "called", out |-> <<>>]

\* The call drawn: parse_float or parse_int of a text of up to MaxText
\* characters, of a cell or of the long number, parse_date of a date cell, create_source of an
\* investor and a location, or fetch_deals of an adapter over a page.
InitAdapters ==
    /\ \/ \E fn \in {"parse_float", "parse_int"} :
            \/ \E k \in 0..MaxText :
                  \E t \in [1..k -> NumberAlphabet] : call = Called(fn, t)
            \/ \E t \in CellTexts \cup {LongNumber} : call = Called(fn, t)
       \/ \E t \in DateArguments : call = Called("parse_date", t)
       \/ \E i \in InvestorNames, u \in UrlTexts :
            call = Called("create_source", [investor |-> i, url |-> u])
       \/ \E c \in {"ScreenerSource", "TrendlyneSource"}, p \in Pages(DealRows, MaxRows) :
            call = Called("fetch_deals", [source |-> c, investor |-> "A",
                                          url |-> "https://www.screener.in/a", page |-> p])
    /\ tx = [p \in Sessions |-> NoSession]
    /\ ingest_schedule = {}
    /\ investors = {}
    /\ stocks = {}
    /\ holdings = {}
    /\ bulk_deals = {}
    /\ block_deals = {}
    /\ seq = [investors |-> 0, stocks |-> 0, holdings |-> 0, bulk_deals |-> 0, block_deals |-> 0]
    /\ clock = 0
    /\ scheduler = [running |-> FALSE, jobs |-> <<>>]
    /\ web = NoRequest
    /\ settings = InvestorSources
    /\ pc = [p \in Procs |-> "idle"]
    /\ job = [p \in Procs |-> NoJob]
    /\ runs = 0
    /\ skipped = 0
    /\ fails = 0
    /\ last = [op |-> "none", ok |-> TRUE, batch |-> <<>>, failAt |-> 0,
               removed |-> 0, again |-> FALSE]

\* The call ended: it returned out, or raised.
Ended(out) ==
    /\ call' = [call EXCEPT !.at = IF out.raised THEN "raised" ELSE "returned", !.out = out]
    /\ UNCHANGED <<tables, seq, clock, fails, last, runvars, schedvars, tx>>

ParseFloat ==
    /\ call.at = "called"
    /\ call.fn = "parse_float"
    /\ Ended(parse_float(call.arg))

ParseInt ==
    /\ call.at = "called"
    /\ call.fn = "parse_int"
    /\ Ended(parse_int(call.arg))

ParseDate ==
    /\ call.at = "called"
    /\ call.fn = "parse_date"
    /\ Ended(parse_date(call.arg))

CreateSource ==
    /\ call.at = "called"
    /\ call.fn = "create_source"
    /\ Ended(create_source(call.arg.investor, call.arg.url))

FetchDeals ==
    /\ call.at = "called"
    /\ call.fn = "fetch_deals"
    /\ Ended(fetch_deals(utils, call.arg.source, call.arg.investor, call.arg.url, call.arg.page))

NextAdapters == ParseFloat \/ ParseInt \/ ParseDate \/ CreateSource \/ FetchDeals

SpecAdapters == InitAdapters /\ [][NextAdapters]_vars

\* ---------------------------------------------------------------- readings
\* The name of the investor and the ticker of the stock a row refers to.
InvestorName(id) == (CHOOSE r \in investors : r.id = id).name
Ticker(id) == (CHOOSE r \in stocks : r.id = id).ticker

HoldingKey(row) == <<InvestorName(row.investor_id), Ticker(row.stock_id)>>
DealKey(row) == <<InvestorName(row.investor_id), Ticker(row.stock_id), row.deal_date>>

Range(f) == { f[i] : i \in DOMAIN f }
\* The records of a deal batch that are buy deals of one kind.
BuyDeals(batch, kind) == { d \in Range(batch) : d.side = "buy" /\ d.deal_type = kind }
\* The last index of batch whose record satisfies Same.
LastIndex(batch, Same(_)) ==
    CHOOSE i \in 1..Len(batch) :
        Same(batch[i]) /\ \A j \in (i + 1)..Len(batch) : ~Same(batch[j])

DealTable(op) == IF op = "sync_bulk_deals" THEN bulk_deals ELSE block_deals
DealKind(op) == IF op = "sync_bulk_deals" THEN "bulk" ELSE "block"
DealOps == {"sync_bulk_deals", "sync_block_deals"}

\* A row without its update timestamp.
Settled(row) == [f \in DOMAIN row \ {"updated_at"} |-> row[f]]

\* ------------------------------------------------------------------ claims
\* C1: after a successful sync_holdings(B) the (investor, stock) keys of the
\* holdings rows are exactly the (investor, ticker) keys occurring in B.
C1_HoldingsMirrorBatch ==
    (last.op = "sync_holdings" /\ last.ok) =>
        { HoldingKey(row) : row \in holdings }
            = { <<h.investor, h.ticker>> : h \in Range(last.batch) }

\* A second call replaced a snapshot: it removed a stale row, kept a row of
\* the call before and inserted a new one.
C1_Witness ==
    /\ last.op = "sync_holdings" /\ last.ok /\ clock = 2
    /\ last.removed >= 1
    /\ \E r1, r2 \in holdings : r1.created_at = 1 /\ r2.created_at = 2

\* C2: after a successful sync_bulk_deals / sync_block_deals the keys of that
\* kind's table are exactly the (investor, ticker, deal date) keys of the
\* records that are buy deals of that kind.
C2_DealsMirrorBuyDealsOfKind ==
    (last.op \in DealOps /\ last.ok) =>
        { DealKey(row) : row \in DealTable(last.op) }
            = { <<d.investor, d.ticker, d.deal_date>> :
                    d \in BuyDeals(last.batch, DealKind(last.op)) }

\* A deal call that dropped a record of its batch (a sell deal or one of the
\* other kind), stored another and removed a stale row.
C2_Witness ==
    /\ last.op \in DealOps /\ last.ok /\ clock = 2
    /\ last.removed >= 1
    /\ DealTable(last.op) # {}
    /\ \E d \in Range(last.batch) : d \notin BuyDeals(last.batch, DealKind(last.op))

\* C3: a reconciliation call that raises leaves the five tables as they were
\* before the call.
C3_FailedCallChangesNothing ==
    [][(clock' = clock + 1 /\ ~last'.ok) => UNCHANGED tables]_vars

\* A call raised at its fourth statement or later, after it had inserted
\* rows: the sequences moved on, the tables hold what the call before left.
C3_Witness ==
    /\ ~last.ok /\ last.failAt >= 4 /\ clock = 2
    /\ holdings # {}
    /\ seq.investors > Cardinality(investors)

\* C7: of several records of a batch with the same key exactly one row is
\* stored, with the values of the last of them in batch order.
C7_LastRecordOfKeyWins ==
    /\ (last.op = "sync_holdings" /\ last.ok) =>
         \A h \in Range(last.batch) :
            LET rows == { r \in holdings : HoldingKey(r) = <<h.investor, h.ticker>> }
                w == last.batch[LastIndex(last.batch,
                        LAMBDA x : x.investor = h.investor /\ x.ticker = h.ticker)]
            IN  /\ Cardinality(rows) = 1
                /\ \A r \in rows : /\ r.percent_holding = w.percent_holding
                                   /\ r.shares = w.shares
                                   /\ r.reported_date = w.reported_date
    /\ (last.op \in DealOps /\ last.ok) =>
         \A d \in BuyDeals(last.batch, DealKind(last.op)) :
            LET rows == { r \in DealTable(last.op) :
                            DealKey(r) = <<d.investor, d.ticker, d.deal_date>> }
                w == last.batch[LastIndex(last.batch,
                        LAMBDA x : /\ x \in BuyDeals(last.batch, DealKind(last.op))
                                   /\ x.investor = d.investor /\ x.ticker = d.ticker
                                   /\ x.deal_date = d.deal_date)]
            IN  /\ Cardinality(rows) = 1
                /\ \A r \in rows : r.quantity = w.quantity /\ r.price = w.price

\* A batch of two records with one key and different values was stored.
C7_Witness ==
    /\ last.ok /\ Len(last.batch) = 2
    /\ last.batch[1] # last.batch[2]
    /\ \/ /\ last.op = "sync_holdings"
          /\ last.batch[1].investor = last.batch[2].investor
          /\ last.batch[1].ticker = last.batch[2].ticker
          /\ last.batch[1].shares # last.batch[2].shares
          /\ holdings # {}
       \/ /\ last.op \in DealOps
          /\ Cardinality(BuyDeals(last.batch, DealKind(last.op))) = 2
          /\ Cardinality(DealTable(last.op)) = 1

\* C8: running sync_holdings(B) again right after a successful
\* sync_holdings(B) leaves the same holdings rows (ids, keys, values and
\* creation times); only updated_at may differ.
C8_SyncHoldingsIdempotent ==
    (last.op = "sync_holdings" /\ last.ok) =>
        LET again == sync_holdings(Tables, seq, clock + 1, last.batch, 0)
        IN  /\ again.ok
            /\ { Settled(r) : r \in again.t.holdings } = { Settled(r) : r \in holdings }

\* The same batch was reconciled twice in a row and rows are stored.
C8_Witness ==
    /\ last.op = "sync_holdings" /\ last.ok /\ last.again
    /\ Cardinality(holdings) = 2

\* -------------------------------------------------- claims about whole runs
\* The run of the scheduler's job (the one process of SpecRun).
Run == job["scheduler"]
RunAt == pc["scheduler"]

\* The investor a row of a table is of (before and after share the investors).
RowsOf(table, name) == { r \in table : InvestorName(r.investor_id) = name }

\* The calls of a run from op on, in the order run_ingestion makes them.
CallsFrom(op) ==
    CASE op = "sync_holdings" -> {"sync_holdings", "sync_bulk_deals", "sync_block_deals"}
      [] op = "sync_bulk_deals" -> {"sync_bulk_deals", "sync_block_deals"}
      [] op = "sync_block_deals" -> {"sync_block_deals"}
      [] OTHER -> {}

\* The calls of the run that have not completed: the one the run is at or
\* failed in, and those after it.
Uncompleted ==
    IF Run.result = "failed" THEN CallsFrom(Run.failed_in) ELSE CallsFrom(RunAt)

\* C4 as stated: when a reconciliation call of a run failed, holdings,
\* bulk_deals and block_deals are all as they were before the run.
C4_FailedRunKeepsWholeSnapshot ==
    (Run.result = "failed") =>
        /\ holdings = Run.before.holdings
        /\ bulk_deals = Run.before.bulk_deals
        /\ block_deals = Run.before.block_deals

\* C4, amended: during and after a run a table is as before the run as long
\* as its own reconciliation call has not completed (the call failed, or an
\* earlier call failed, or the run has not reached it); the tables of the
\* calls that completed hold the new scrape, also when a later call failed.
C4_TableReplacedByItsOwnCallOnly ==
    (Run.result # "none") =>
        /\ ("sync_holdings" \in Uncompleted) => holdings = Run.before.holdings
        /\ ("sync_bulk_deals" \in Uncompleted) => bulk_deals = Run.before.bulk_deals
        /\ ("sync_block_deals" \in Uncompleted) => block_deals = Run.before.block_deals
        /\ ("sync_holdings" \notin Uncompleted) =>
              { HoldingKey(r) : r \in holdings }
                  = { <<h.investor, h.ticker>> : h \in Range(Run.holdings) }
        /\ ("sync_bulk_deals" \notin Uncompleted) =>
              { DealKey(r) : r \in bulk_deals }
                  = { <<d.investor, d.ticker, d.deal_date>> : d \in BuyDeals(Run.deals, "bulk") }
        /\ ("sync_block_deals" \notin Uncompleted) =>
              { DealKey(r) : r \in block_deals }
                  = { <<d.investor, d.ticker, d.deal_date>> : d \in BuyDeals(Run.deals, "block") }

\* sync_bulk_deals raised after it had written a row of its batch, in a run
\* whose sync_holdings had replaced the holdings: bulk_deals is back to the
\* earlier snapshot, holdings is not.
C4_Witness ==
    /\ Run.result = "failed" /\ Run.failed_in = "sync_bulk_deals"
    /\ last.failAt >= 5
    /\ BuyDeals(Run.deals, "bulk") # {}
    /\ holdings # Run.before.holdings
    /\ bulk_deals = Run.before.bulk_deals /\ bulk_deals # {}

\* The investors of a run whose adapter raised before it yielded a record,
\* in a run where no other investor's adapter raised.
FailedAtOnce ==
    { i \in DOMAIN Run.fetched :
        /\ Run.fetched[i].failed
        /\ Run.fetched[i].holdings = <<>> /\ Run.fetched[i].deals = <<>>
        /\ \A k \in DOMAIN Run.fetched \ {i} : ~Run.fetched[k].failed }

\* C5: after a completed run in which one investor's adapter raised before
\* yielding any record and the others did not raise, the holdings rows are
\* the holdings the other investors returned (one row per key, with the
\* values returned), and no holdings, bulk_deals or block_deals row of the
\* failing investor is left.
C5_FailedInvestorRemovedOthersStored ==
    (Run.result = "completed") =>
        \A i \in FailedAtOnce :
            LET others == UNION { Range(Run.fetched[k].holdings) :
                                    k \in DOMAIN Run.fetched \ {i} }
                name == Run.fetched[i].investor
            IN  /\ { HoldingKey(r) : r \in holdings }
                      = { <<h.investor, h.ticker>> : h \in others }
                /\ \A r \in holdings :
                      \E h \in others :
                         /\ HoldingKey(r) = <<h.investor, h.ticker>>
                         /\ r.percent_holding = h.percent_holding
                         /\ r.shares = h.shares
                         /\ r.reported_date = h.reported_date
                /\ Cardinality(holdings)
                      = Cardinality({ <<h.investor, h.ticker>> : h \in others })
                /\ RowsOf(holdings, name) = {}
                /\ RowsOf(bulk_deals, name) = {}
                /\ RowsOf(block_deals, name) = {}

\* A completed run in which an investor with holdings and deals of both kinds
\* stored by an earlier run failed at once, and the other investor returned
\* holdings.
C5_Witness ==
    /\ Run.result = "completed"
    /\ \E i \in FailedAtOnce :
         /\ \E r \in Run.before.holdings :
               InvestorName(r.investor_id) = Run.fetched[i].investor
         /\ \E r \in Run.before.bulk_deals :
               InvestorName(r.investor_id) = Run.fetched[i].investor
         /\ \E r \in Run.before.block_deals :
               InvestorName(r.investor_id) = Run.fetched[i].investor
    /\ holdings # {}

\* C6: none of the records an investor's adapter yielded before it raised is
\* in the batches of the run, and every record of every other investor is.
C6_FailedInvestorOmitted ==
    \A i \in DOMAIN Run.fetched :
        IF Run.fetched[i].failed
        THEN /\ \A h \in Range(Run.holdings) : h.investor # Run.fetched[i].investor
             /\ \A d \in Range(Run.deals) : d.investor # Run.fetched[i].investor
        ELSE /\ Range(Run.fetched[i].holdings) \subseteq Range(Run.holdings)
             /\ Range(Run.fetched[i].deals) \subseteq Range(Run.deals)

\* The rows of the deal pages that are sell deals or carry a text that is no
\* date, and the table rows with the ticker and the values of such a row.
SellOrUnparsable ==
    { s \in DealRows : Lower(s.side) = "sell" \/ DateCell[s.date] = "raise" }
DerivedFrom(r, s) ==
    /\ Ticker(r.stock_id) = Upper(s.ticker)
    /\ r.quantity = IntCell[s.quantity]
    /\ r.price = FloatCell[s.price]

\* C9: no row of bulk_deals or block_deals derives from a page row that is a
\* sell deal or whose date text does not parse, of either kind.
C9_NoSellOrUnparsableDealStored ==
    \A r \in bulk_deals \cup block_deals :
        \A s \in SellOrUnparsable : ~DerivedFrom(r, s)

\* A completed run whose deal batch held a sell deal of each kind next to a
\* buy deal that was stored, while another investor's page had a row that
\* made its adapter raise.
C9_Witness ==
    /\ Run.result = "completed"
    /\ \E d \in Range(Run.deals) : d.side = "sell" /\ d.deal_type = "bulk"
    /\ \E d \in Range(Run.deals) : d.side = "sell" /\ d.deal_type = "block"
    /\ \E i \in DOMAIN Run.fetched : Run.fetched[i].failed
    /\ bulk_deals \cup block_deals # {}

\* C10: at no time are two processes inside run_ingestion.
C10_NoConcurrentRuns ==
    Cardinality({ p \in Procs : pc[p] # "idle" }) <= 1

\* ------------------------------------------------ claims about identity rows
\* C18: in every committed state holdings has at most one row per (investor,
\* stock) and each deal table at most one row per (investor, stock, deal date).
C18_KeysUnique ==
    /\ \A r1, r2 \in holdings :
          (r1.investor_id = r2.investor_id /\ r1.stock_id = r2.stock_id) => r1 = r2
    /\ \A r1, r2 \in bulk_deals :
          (r1.investor_id = r2.investor_id /\ r1.stock_id = r2.stock_id
             /\ r1.deal_date = r2.deal_date) => r1 = r2
    /\ \A r1, r2 \in block_deals :
          (r1.investor_id = r2.investor_id /\ r1.stock_id = r2.stock_id
             /\ r1.deal_date = r2.deal_date) => r1 = r2

\* A call whose batch named one key twice met a row of that key stored by the
\* call before, and stored a row of another key next to it.
C18_Witness ==
    /\ last.ok /\ clock = 2 /\ Len(last.batch) = 2
    /\ \/ /\ last.op = "sync_holdings"
          /\ last.batch[1].investor = last.batch[2].investor
          /\ last.batch[1].ticker = last.batch[2].ticker
          /\ \E r \in holdings : r.created_at = 1 /\ r.updated_at = 2
       \/ /\ last.op \in DealOps
          /\ Cardinality(BuyDeals(last.batch, DealKind(last.op))) = 2
          /\ Cardinality(DealTable(last.op)) = 1
          /\ \E r \in DealTable(last.op) : r.created_at = 1 /\ r.updated_at = 2

\* C19: a reconciliation call, successful or failed, keeps every investors
\* row with its id and name and every stocks row with its id and ticker.
C19_IdentityRowsStay ==
    [][/\ \A r \in investors : \E r2 \in investors' : r2.id = r.id /\ r2.name = r.name
       /\ \A st \in stocks : st \in stocks']_vars

\* A call removed the last holdings row as stale while no deal row exists:
\* no row refers to the investors and stocks that are still there.
C19_Witness ==
    /\ last.op = "sync_holdings" /\ last.ok /\ last.removed >= 1
    /\ holdings = {} /\ bulk_deals = {} /\ block_deals = {}
    /\ investors # {} /\ stocks # {}

\* The records a call resolves investors for: the batch, or its buy deals of
\* the call's kind.
Resolved(op, batch) ==
    IF op = "sync_holdings" THEN batch ELSE DealFilter(batch, DealKind(op))

\* C20: after a successful call whose filtered batch has records of investor
\* N there is one investors row named N, with the id it had before the call
\* if it existed, and with the source location of the last record of N.
C20_InvestorResolvedByName ==
    [][(clock' = clock + 1 /\ last'.ok) =>
          LET recs == Resolved(last'.op, last'.batch)
          IN  \A i \in DOMAIN recs :
                LET N == recs[i].investor
                    w == recs[LastIndex(recs, LAMBDA x : x.investor = N)]
                    rows == { r \in investors' : r.name = N }
                IN  /\ Cardinality(rows) = 1
                    /\ \A r \in rows : r.source_url = w.source_url
                    /\ \A old \in investors :
                          old.name = N => \A r \in rows : r.id = old.id]_vars

\* An investor stored by the call before was named by two records with
\* different source locations and has the second one's.
C20_Witness ==
    /\ last.op = "sync_holdings" /\ last.ok /\ clock = 2 /\ Len(last.batch) = 2
    /\ last.batch[1].investor = last.batch[2].investor
    /\ last.batch[1].source_url # last.batch[2].source_url
    /\ \E r \in investors :
          /\ r.name = last.batch[2].investor
          /\ r.created_at = 1 /\ r.updated_at = 2
          /\ r.source_url = last.batch[2].source_url

\* ------------------------------------------------ claims about the schedule
InRange(hour, minute) == 0 <= hour /\ hour <= 23 /\ 0 <= minute /\ minute <= 59

\* C12: an update_schedule with an hour outside 0..23 or a minute outside
\* 0..59 fails and leaves the stored row as it was, and every stored row has
\* its hour in 0..23 and its minute in 0..59.
C12_UpdateScheduleValidates ==
    /\ \A x \in web.given :
          ~InRange(x.hour, x.minute) => (~web.ok /\ ingest_schedule = web.before)
    /\ \A r \in ingest_schedule : InRange(r.hour, r.minute)

\* C13: the schedule read right after a committed update_schedule(h, m) has
\* hour h and minute m, and the table holds one row after the update.
C13_ReadAfterUpdate ==
    /\ [](web.updated => Cardinality(ingest_schedule) = 1)
    /\ [][(web.updated /\ ~web'.updated /\ clock' = clock + 1) =>
            /\ \A x \in web.given, y \in web'.ret :
                  y.hour = x.hour /\ y.minute = x.minute
            /\ Cardinality(ingest_schedule') = 1]_vars

\* The row was seeded or stored by a first operation, replaced by an update
\* to 09:30, and then read as 09:30.
C13_Witness ==
    /\ web.op = "get" /\ web.ok /\ clock = 3
    /\ \E r \in ingest_schedule :
          /\ r.created_at = 1 /\ r.updated_at = 2
          /\ r.hour = 9 /\ r.minute = 30
          /\ web.ret = { [hour |-> 9, minute |-> 30, timezone |-> r.timezone] }

\* C14: an update_schedule that is given no timezone leaves the stored
\* timezone as it was.
C14_TimezoneDefaultsToStored ==
    [][(web'.updated /\ clock' = clock + 1
          /\ \A x \in web'.given : x.timezone = "omitted") =>
            \A r \in ingest_schedule, r2 \in ingest_schedule' :
                r2.timezone = r.timezone]_vars

\* C15: the scheduler holds at most one job, and it is the job JOB_ID.
C15_OneTrigger ==
    /\ Len(scheduler.jobs) <= 1
    /\ \A i \in DOMAIN scheduler.jobs : scheduler.jobs[i].id = JOB_ID

\* The running scheduler's job, added at startup, was rescheduled by two
\* posted times and fires at the second.
C15_Witness ==
    /\ scheduler.running /\ web.op = "post" /\ web.updated /\ clock = 3
    /\ Len(scheduler.jobs) = 1
    /\ scheduler.jobs[1].trigger.hour = 23 /\ scheduler.jobs[1].trigger.minute = 59
    /\ \E r \in ingest_schedule : r.created_at = 1 /\ r.updated_at = 3
\* ------------------------------------------------------------------- C16
\* The sessions that returned from get_or_create_schedule.
Returned == { p \in Sessions : tx[p].at = "done" }

\* C16: under any interleaving of concurrent get_or_create_schedule calls on an
\* empty ingest_schedule table no call fails on a conflict (the only calls that
\* raise are those the database failed, and a call waiting for a key waits for
\* a session that can end), every call that returns returns 02:00 UTC, and
\* once a call has returned exactly one row, 02:00 UTC, exists; a call never
\* changes a row that exists.
C16_SeedingConflictFree ==
    /\ [](/\ Cardinality({ p \in Sessions : tx[p].at = "raised" }) = fails
          /\ \A p \in Sessions :
                (tx[p].at = "insert" /\ SeedBlocked(p))
                    => \E q \in Sessions \ {p} : tx[q].at = "exit"
          /\ (StoredSchedule \notin ingest_schedule) =>
                \A p \in Returned :
                   /\ tx[p].ret = {DEFAULT_SCHEDULE}
                   /\ Cardinality(ingest_schedule) = 1
                   /\ \A r \in ingest_schedule :
                         /\ r.id = 1
                         /\ r.hour = 2 /\ r.minute = 0 /\ r.timezone = "UTC"
          /\ (StoredSchedule \in ingest_schedule) =>
                /\ ingest_schedule = {StoredSchedule}
                /\ \A p \in Returned :
                      tx[p].ret = {[hour |-> 9, minute |-> 30,
                                    timezone |-> "Asia/Kolkata"]})
    /\ [][ingest_schedule # {} => ingest_schedule' = ingest_schedule]_vars

\* Three calls began on the empty table before any row was committed, one of
\* them inserted the row, and all three have returned.
C16_Witness ==
    /\ Returned = Sessions
    /\ \A p \in Sessions : tx[p].saw = {} /\ tx[p].ret = {DEFAULT_SCHEDULE}
    /\ \E r \in ingest_schedule : r.hour = 2 /\ r.created_at \in 1..3
    /\ fails = 0
\* ------------------------------------------------------------------- C17
\* C17: when run_ingestion raises inside the scheduled job the failure is
\* contained: the step in which the run fails leaves the scheduler and its
\* job as they are, and while the application is not shut down the job is
\* fired again (run_ingestion is entered once more) at a later instant of the
\* trigger.
C17_FailedRunFiresAgain ==
    /\ [][(job["scheduler"].result # "failed" /\ job'["scheduler"].result = "failed")
            => scheduler' = scheduler]_vars
    /\ \A n \in 1..(MaxTriggers - 1) :
          (runs = n /\ Run.result = "failed" /\ Registered)
              ~> ((runs = n + 1 /\ Registered) \/ ~scheduler.running)

\* The first scheduled run failed in a reconciliation call, and the job has
\* been fired a second time.
C17_Witness ==
    /\ Registered
    /\ runs = 2
    /\ fails = 1
    /\ last.op # "none" /\ ~last.ok
    /\ RunAt = "sync_holdings"
    /\ Run.result = "running"
\* ------------------------------------------------------------------- C11
\* The keys (investor, ticker) of a batch.
BatchKeys(batch) == { <<h.investor, h.ticker>> : h \in Range(batch) }

\* C11: once two overlapping sync_holdings calls with batches B1 and B2 have
\* both committed, the keys of table holdings are the keys of B1 or the keys
\* of B2, never a mixture or the union of the two.
C11_OverlapIsSerial ==
    (\A p \in Writers : tx[p].at = "done") =>
        \E p \in Writers :
            { HoldingKey(r) : r \in holdings } = BatchKeys(tx[p].batch)

\* ------------------------------------------------------------------- C29
\* C29: parse_float never raises: every call of it, on None, on the empty
\* text and on every text of digits, dots, percent signs, separators and
\* other characters, returns a float or None.
C29_ParseFloatNeverRaises ==
    call.fn = "parse_float" => call.at # "raised"

\* ------------------------------------------------------------------- C30
\* The number the digit characters of a text denote, read from the right:
\* the last digit counts once, the digits before it ten times as much.
RECURSIVE DigitsDenote(_)
DigitsDenote(text) ==
    IF text = <<>> THEN 0
    ELSE LET front == SubSeq(text, 1, Len(text) - 1)
             c == text[Len(text)]
         IN  IF c \in Digits THEN 10 * DigitsDenote(front) + DigitValue(c)
             ELSE DigitsDenote(front)

HasDigit(text) == text # Absent /\ \E i \in DOMAIN text : text[i] \in Digits

\* C30: parse_int never raises; it returns None for None, for the empty text
\* and for a text without a digit, and otherwise the integer that the digit
\* characters of the text denote in their order.  (int() raises on the long
\* number.)
C30_ParseIntIsTheDigits ==
    (call.fn = "parse_int" /\ call.at # "called") =>
        /\ call.at = "returned"
        /\ call.out.none <=> ~HasDigit(call.arg)
        /\ ~call.out.none => call.out.value = DigitsDenote(call.arg)

\* ------------------------------------------------------------------- C23
\* C23: the percent cell "12.34%" parses to 12.34, the shares cell "1,234" to
\* 1234 and the date cell "05-01-2024" to the 5th of January 2024: the
\* percent sign and the thousands separator are dropped and the day is read
\* before the month.
C23_HoldingCellsParse ==
    /\ (call.fn = "parse_float" /\ call.arg = Text("12.34%") /\ call.at # "called") =>
          /\ call.at = "returned"
          /\ ~call.out.none
          /\ call.out.value = Float(FALSE, 1234, 2)
    /\ (call.fn = "parse_int" /\ call.arg = Text("1,234") /\ call.at # "called") =>
          /\ call.at = "returned"
          /\ ~call.out.none
          /\ call.out.value = 1234
    /\ (call.fn = "parse_date" /\ call.arg = Text("05-01-2024") /\ call.at # "called") =>
          /\ call.at = "returned"
          /\ ~call.out.none
          /\ call.out.value = [year |-> 2024, month |-> 1, day |-> 5]

\* parse_date has returned a date for "05-01-2024".
C23_Witness ==
    /\ call.fn = "parse_date"
    /\ call.arg = Text("05-01-2024")
    /\ call.at = "returned"
    /\ ~call.out.none

\* ------------------------------------------------------------------- C22
\* The fragment stands in the location, character for character, from some
\* position on.
Occurs(fragment, url) ==
    \E i \in 1..Len(url) :
        \A k \in 1..Len(fragment) :
            i + k - 1 <= Len(url) /\ url[i + k - 1] = fragment[k]

\* The adapter classes whose host fragment stands in the location.
FamiliesOf(url) ==
    { f \in {"ScreenerSource", "TrendlyneSource"} :
        Occurs(Text(IF f = "ScreenerSource" THEN "screener.in" ELSE "trendlyne.com"), url) }

\* C22: create_source raises the unsupported-source error for every location
\* in which neither host fragment stands, and for a location in which one
\* stands it returns an adapter of that family constructed with the investor
\* and the location it was given.
C22_CreateSourceNeverGuesses ==
    (call.fn = "create_source" /\ call.at # "called") =>
        /\ FamiliesOf(call.arg.url) = {} =>
              call.at = "raised" /\ call.out.class = "ValueError"
        /\ FamiliesOf(call.arg.url) # {} =>
              /\ call.at = "returned"
              /\ call.out.class \in FamiliesOf(call.arg.url)
              /\ call.out.investor = call.arg.investor
              /\ call.out.url = call.arg.url

\* create_source raised for a location of another host, given investor B.
C22_Witness ==
    /\ call.fn = "create_source"
    /\ call.at = "raised"
    /\ call.arg.investor = "B"
    /\ call.arg.url = Text("https://example.com/a")

\* ------------------------------------------------------------------- C21
\* A row of the deals table with a side of buy or sell and a date cell that
\* holds a date.
ValidDealRow(row) ==
    /\ Lower(row.side) \in Sides
    /\ row.date = "05-01-2024"

\* C21: fetch_deals of either adapter, on a page that was served, does not
\* raise for a row whose side is neither buy nor sell or whose date does not
\* parse: it returns, having yielded one deal for each valid row of the page.
C21_BadDealRowsAreSkipped ==
    (call.fn = "fetch_deals" /\ call.at # "called" /\ call.arg.page.status = 200) =>
        /\ call.at = "returned"
        /\ Len(call.out.items)
             = Cardinality({ i \in DOMAIN call.arg.page.rows :
                               ValidDealRow(call.arg.page.rows[i]) })

\* ------------------------------------------------------------------- C25
\* The fields of a holdings row and of a deal row that an upsert may change.
HoldingMutable == {"percent_holding", "shares", "reported_date", "updated_at"}
DealMutable == {"quantity", "price", "updated_at"}

\* The rows agree on every field outside mutable.
SameBut(old, new, mutable) ==
    /\ DOMAIN old = DOMAIN new
    /\ \A f \in DOMAIN old \ mutable : old[f] = new[f]

\* C25: a successful reconciliation call keeps the row id and the creation
\* timestamp of every holdings or deal row whose key was in the table before
\* the call and is in the call's batch: afterwards the table holds a row with
\* the same id that differs from the old one in the mutable fields and the
\* update timestamp at most.
C25_UpsertKeepsIdentity ==
    [][(clock' = clock + 1 /\ last'.ok) =>
         /\ last'.op = "sync_holdings" =>
               \A old \in holdings :
                   HoldingKey(old) \in { <<h.investor, h.ticker>> : h \in Range(last'.batch) }
                   => \E new \in holdings' :
                         new.id = old.id /\ SameBut(old, new, HoldingMutable)
         /\ last'.op = "sync_bulk_deals" =>
               \A old \in bulk_deals :
                   DealKey(old) \in { <<d.investor, d.ticker, d.deal_date>> :
                                        d \in BuyDeals(last'.batch, "bulk") }
                   => \E new \in bulk_deals' :
                         new.id = old.id /\ SameBut(old, new, DealMutable)
         /\ last'.op = "sync_block_deals" =>
               \A old \in block_deals :
                   DealKey(old) \in { <<d.investor, d.ticker, d.deal_date>> :
                                        d \in BuyDeals(last'.batch, "block") }
                   => \E new \in block_deals' :
                         new.id = old.id /\ SameBut(old, new, DealMutable)]_vars

\* The second call of a deal kind updated a row of the first in place: the
\* row was created by the first call and holds the values of the second.
C25_Witness ==
    /\ last.op \in DealOps /\ last.ok /\ clock = 2
    /\ \E row \in DealTable(last.op) :
          /\ row.created_at = 1
          /\ row.updated_at = 2
          /\ \E d \in BuyDeals(last.batch, DealKind(last.op)) :
                /\ DealKey(row) = <<d.investor, d.ticker, d.deal_date>>
                /\ row.quantity = d.quantity

\* ------------------------------------------------------------------- C27
\* C27: a reconciliation call writes to its own record table only:
\* sync_holdings leaves bulk_deals and block_deals as they were,
\* sync_bulk_deals leaves holdings and block_deals as they were, and
\* sync_block_deals leaves holdings and bulk_deals as they were.
C27_CallTouchesItsOwnTable ==
    [][(clock' = clock + 1) =>
         /\ last'.op = "sync_holdings" => UNCHANGED <<bulk_deals, block_deals>>
         /\ last'.op = "sync_bulk_deals" => UNCHANGED <<holdings, block_deals>>
         /\ last'.op = "sync_block_deals" => UNCHANGED <<holdings, bulk_deals>>]_vars

\* sync_block_deals stored a block buy deal from a batch that also held a
\* bulk buy deal, after sync_bulk_deals had stored a row: the bulk row is
\* still the one of the first call.
C27_Witness ==
    /\ last.op = "sync_block_deals" /\ last.ok /\ clock = 2
    /\ \E d \in Range(last.batch) : d.side = "buy" /\ d.deal_type = "bulk"
    /\ block_deals # {}
    /\ bulk_deals # {}
    /\ \A row \in bulk_deals : row.updated_at = 1

\* ------------------------------------------------------------------- C24
\* The trigger fires at the hour and minute, in the timezone, of the row.
TriggerOf(row) ==
    [raised |-> FALSE, hour |-> row.hour, minute |-> row.minute, timezone |-> row.timezone]

\* C24: when the startup event has completed, and when a posted time has been
\* stored and the request completed, the table holds one schedule row and the
\* ingestion job's trigger has the hour, the minute and the timezone of it.
C24_TriggerFollowsStoredSchedule ==
    ((web.op = "startup" \/ (web.op = "post" /\ web.updated)) /\ web.ok) =>
        /\ Cardinality(ingest_schedule) = 1
        /\ \E i \in DOMAIN scheduler.jobs : scheduler.jobs[i].id = JOB_ID
        /\ \A row \in ingest_schedule :
             \A i \in DOMAIN scheduler.jobs :
                scheduler.jobs[i].id = JOB_ID => scheduler.jobs[i].trigger = TriggerOf(row)

\* The application started on a table that held 09:30 Asia/Kolkata, stored by
\* update_schedule before: the job fires at 09:30 Asia/Kolkata.
C24_Witness ==
    /\ web.op = "startup" /\ web.ok /\ scheduler.running
    /\ \E row \in ingest_schedule :
          /\ row.hour = 9 /\ row.minute = 30 /\ row.timezone = "Asia/Kolkata"
          /\ scheduler.jobs[1].trigger = TriggerOf(row)

\* ------------------------------------------------------------------- C26
\* The configuration holds an investor whose location has neither host
\* fragment in it.
HasUnsupported(sources) ==
    \E i \in DOMAIN sources : FamiliesOf(Text(sources[i].url)) = {}

\* C26: under a configuration with an unsupported location, wherever it
\* stands, a run ends in create_source's error without a reconciliation
\* call: the process is back outside run_ingestion, no call was made and the
\* five tables are those the run found.
C26_UnsupportedLocationAbortsRun ==
    (HasUnsupported(settings) /\ runs > 0) =>
        /\ pc["cli"] = "idle"
        /\ job["cli"].result = "failed"
        /\ job["cli"].failed_in = "create_source"
        /\ last.op = "none"
        /\ Tables = job["cli"].before

\* The run fetched two investors and ended at the third, whose location is of
\* another host; the tables still hold what the earlier run stored.
C26_Witness ==
    /\ runs = 1
    /\ Len(settings) = 3
    /\ settings[3].url = "https://example.com/a"
    /\ Len(job["cli"].fetched) = 2
    /\ \E i \in 1..2 : ~job["cli"].fetched[i].failed /\ job["cli"].fetched[i].holdings # <<>>
    /\ job["cli"].result = "failed"
    /\ holdings # {}

\* ------------------------------------------------------------------- C28
\* The schedule a row holds.
ScheduleOf(row) == [hour |-> row.hour, minute |-> row.minute, timezone |-> row.timezone]

\* The row held 02:00 UTC at some moment: it holds it now, or it was not
\* inserted by update_schedule (a seeding insert created it, and the update
\* changed it afterwards).
HeldDefault(row) ==
    \/ ScheduleOf(row) = DEFAULT_SCHEDULE
    \/ row.created_at # tx[Updater].now

\* C28: what get_or_create_schedule returns is what the row of the table
\* held at some moment of the call, whatever update_schedule does beside it:
\* a call that read a row returns that row's schedule, and a call that found
\* the table empty and returns 02:00 UTC returns what the row held once it
\* existed.
C28_GetReturnsStoredSchedule ==
    \A p \in Getters :
        tx[p].at = "done" =>
            /\ tx[p].saw # {} => tx[p].ret = { ScheduleOf(row) : row \in tx[p].saw }
            /\ tx[p].saw = {} =>
                  /\ ingest_schedule # {}
                  /\ \A row \in ingest_schedule :
                        tx[p].ret = {DEFAULT_SCHEDULE} => HeldDefault(row)

====
